---------------------------- MODULE Spec2Model ----------------------------
(***************************************************************************)
(* Model of the wavy audio pipeline: MixerController / Mixer (mixer.cpp),  *)
(* the Buffered and Amplify decorators and the render loop of main.cpp.    *)
(*                                                                         *)
(* A source handed to MixerController::add is represented by an identifier *)
(* and by the finite sequence of samples its next_sample() still has to    *)
(* return; once that sequence is empty next_sample() returns none.         *)
(* std::optional<double> is a sequence of length 0 (none) or 1 (a value).  *)
(***************************************************************************)
EXTENDS Integers, Sequences, FiniteSets, TLC

\* ------------------------------------------------------------------ bounds
ChannelCount == 2
MaxSources == 2
MaxLen == 2
MaxCalls == 4
NumProducers == 2
BufferFrames == 1
DeviceRate == 4
Bpm == 60
StartStep == 24
MaxStartSteps == 2
Gain == 2
MaxDepth == 2
MaxInput == 8
MaxChannels == 2
MaxBufferFrames == 2
MaxPulls == 10
CallbackFrames == 2
MaxCallbacks == 2
MaxRendered == 6
LiveSources == 1
MaxRates == 3
MaxCommands == 5
MaxRepeat == 2
SampleSteps == 64
WrapMargin == 20

\* ------------------------------------------------------- program constants
\* uint32_t _sample_count is kept as two 16-bit halves <<high, low>>, so that
\* the counter has exactly the width it has in the program.
Half == 65536

CounterZero == <<0, 0>>

\* _sample_count += 1, modulo 2^32
CounterInc(c) ==
    IF c[2] + 1 < Half THEN <<c[1], c[2] + 1>> ELSE <<(c[1] + 1) % Half, 0>>

\* _sample_count % n for a small positive n
CounterRem(c, n) == ((c[1] % n) * (Half % n) + (c[2] % n)) % n

\* static constexpr int get_resolution_per_beat() { return 96; }
ResolutionPerBeat == 96

Samples == {-1, 1}
Null == 0
Free == 0
MixerThread == NumProducers + 1
Producers == 1 .. NumProducers
SourceIds == 1 .. MaxSources

None == <<>>
Some(v) == <<v>>

\* every sample sequence of length 0..MaxLen
Contents == UNION {[1 .. n -> Samples] : n \in 0 .. MaxLen}

VARIABLES
    has_pending,        \* MixerController::_has_pending
    pending_sources,    \* MixerController::_pending_sources
    mtx,                \* MixerController::_pending_sources_mtx (holder or Free)
    current_sources,    \* Mixer::_current_sources
    sample_count,       \* Mixer::_sample_count
    still_pending,      \* Mixer::_still_pending
    still_current,      \* Mixer::_still_current
    remaining,          \* per source: the samples its next_sample() has yet to return
    content,            \* per source: the samples it had when it was built
    buffer,             \* Buffered::_buffer of the master output chain
    buffer_idx,         \* Buffered::_buffer_idx
    sources,            \* main: the timeline, <<start, source>> in descending start order
    time,               \* main: time, counted in steps of dt
    samples,            \* main: the samples collected for export
    ppc,                \* per producer: position inside MixerController::add
    hand,               \* per producer: the converted source it is adding
    cpc,                \* consumer: position inside Mixer::next_sample
    rpc,                \* render loop: "loop" or "done"
    next_id,            \* next unused source identifier
    chain,              \* a decorator chain: its nodes, innermost first
    queue,              \* main: the device queue, oldest sample first
    empty_overlap_count,\* main: empty_overlap_count
    samples_remaining,  \* device callback: samples_remaining
    value,              \* render loop (live): the sample being enqueued
    live_i,             \* render loop (live): i of for (i < channel_count)
    lpc,                \* render loop (live): "while", "pull", "enqueue" or "done"
    dpc,                \* device callback: "idle" (not running), "loop" or "off"
    data_pos,           \* device callback: how far the pointer data has moved into the buffer
    sample_rates,       \* the device's available_sample_rates()
    opened,             \* the rate handed to device.open(), 0 while there was no call
    opc,                \* opening the device: "off", "start", "main", "stream" or "none"
    commands,           \* process_*_commands: the parsed commands
    command_i,          \* process_*_commands: commands handled by the first loop
    final_commands,     \* process_*_commands: final_commands
    repeat_stack,       \* process_*_commands: repeat_stack
    kpc,                \* process_*_commands: "off", "loop", "pattern", "track" or "error"
    is_open,            \* WasapiOutputDevice::_is_open
    is_running,         \* WasapiOutputDevice::_is_running
    device_callback,    \* WasapiOutputDevice::_callback: 0 while empty
    client_started,     \* has IAudioClient::Start been called with no Stop since
    client_event,       \* WasapiOutputDevice::_client_event, an auto-reset event
    tpc,                \* _client_thread: "none", "while", "wait", "running", "process", "call" or "exited"
    apc,                \* thread using the device: "off", "idle", a position inside start, stop or close, or "aborted"
    closing,            \* is the stop() in progress the one called by close()
    note_str,           \* Note::from_str: str, one character per element
    note_parsed,        \* Note::from_str: what it returned
    npc,                \* Note::from_str: "off", "call" or "done"
    wave_sample,        \* export_samples_as_wave: sample, in units of 1 / SampleSteps
    wave_pcm,           \* export_samples_as_wave: pcm
    wpc,                \* export_samples_as_wave: "off", "convert" or "written"
    mixer_channels,     \* MixerController::_channel_count of a Mixer made for any channel count, 0 while there is none
    \* ---- history variables (observations, not program state)
    ret,                \* value returned by the last Mixer::next_sample call
    calls,              \* number of completed Mixer::next_sample calls
    added,              \* sources whose push_back has happened
    returned,           \* sources whose MixerController::add has returned
    admitted_at,        \* per source: value of calls when it was admitted, or -1
    admit_count,        \* per source: number of times it was moved into the active set
    first_pull,         \* per source: value of calls at its first next_sample(), or -1
    none_count,         \* per source: number of times its next_sample() returned none
    dropped,            \* sources removed from the active set
    waited,             \* per source: next_sample calls begun since its add returned, while not admitted
    last_yield,         \* samples the active sources yielded in the last call
    last_live,          \* did the active set hold a source with samples left at the last sum
    last_pending,       \* was some source with samples left pending at the last return
    mixed,              \* the values Mixer::next_sample has returned, in order
    outputs,            \* the values the master output chain has returned, in order
    trace,              \* per node of the chain: what its next_sample() has returned, in order
    data,               \* the slots of the hardware buffers handed to the callback, in order
    callbacks,          \* number of callback invocations begun
    pulled,             \* what output->next_sample() has returned to the render loop, in order
    entry_overlap,      \* empty_overlap_count on entry to the latest callback
    entry_at,           \* Len(data) on entry to the latest callback
    handed,             \* the sources handed to MixerController::add: <<start, source, resolution time>>
    open_returned,      \* what the latest open() returned: "none", "true" or "false"
    quiet,              \* has no start() stored a callback since the device was made or since stop() or close() last returned
    true_rem            \* the number of Mixer::next_sample calls made, modulo mixer_channels

\* the state Mixer::next_sample and MixerController::add work on, as one record
mixVars == <<has_pending, pending_sources, current_sources, sample_count,
             still_pending, still_current, remaining, ret, calls, added,
             admitted_at, admit_count, first_pull, none_count, dropped,
             last_yield, last_live, last_pending, mixed>>
renderVars == <<buffer, buffer_idx, sources, time, samples, rpc, outputs, handed>>
threadVars == <<ppc, hand, cpc, returned, waited>>
chainVars == <<chain, trace>>
callbackVars == <<empty_overlap_count, samples_remaining, data, data_pos, dpc,
                  callbacks, entry_overlap, entry_at>>
liveVars == <<queue, callbackVars, value, live_i, lpc, pulled>>
openVars == <<sample_rates, opened, opc>>
compileVars == <<commands, command_i, final_commands, repeat_stack, kpc>>
hostVars == <<is_open, is_running, device_callback, client_started, client_event,
             tpc, apc, closing, open_returned, quiet>>
noteVars == <<note_str, note_parsed, npc>>
waveVars == <<wave_sample, wave_pcm, wpc>>
wrapVars == <<mixer_channels, true_rem>>
vars == <<mixVars, mtx, content, next_id, renderVars, threadVars, chainVars, liveVars,
          openVars, compileVars, hostVars, noteVars, waveVars, wrapVars>>

Mx ==
    [has_pending |-> has_pending, pending_sources |-> pending_sources,
     current_sources |-> current_sources, sample_count |-> sample_count,
     still_pending |-> still_pending, still_current |-> still_current,
     remaining |-> remaining, ret |-> ret, calls |-> calls, added |-> added,
     admitted_at |-> admitted_at, admit_count |-> admit_count,
     first_pull |-> first_pull, none_count |-> none_count, dropped |-> dropped,
     last_yield |-> last_yield, last_live |-> last_live,
     last_pending |-> last_pending, mixed |-> mixed]

InitMx(m) ==
    /\ has_pending = m.has_pending
    /\ pending_sources = m.pending_sources
    /\ current_sources = m.current_sources
    /\ sample_count = m.sample_count
    /\ still_pending = m.still_pending
    /\ still_current = m.still_current
    /\ remaining = m.remaining
    /\ ret = m.ret
    /\ calls = m.calls
    /\ added = m.added
    /\ admitted_at = m.admitted_at
    /\ admit_count = m.admit_count
    /\ first_pull = m.first_pull
    /\ none_count = m.none_count
    /\ dropped = m.dropped
    /\ last_yield = m.last_yield
    /\ last_live = m.last_live
    /\ last_pending = m.last_pending
    /\ mixed = m.mixed

SetMx(m) ==
    /\ has_pending' = m.has_pending
    /\ pending_sources' = m.pending_sources
    /\ current_sources' = m.current_sources
    /\ sample_count' = m.sample_count
    /\ still_pending' = m.still_pending
    /\ still_current' = m.still_current
    /\ remaining' = m.remaining
    /\ ret' = m.ret
    /\ calls' = m.calls
    /\ added' = m.added
    /\ admitted_at' = m.admitted_at
    /\ admit_count' = m.admit_count
    /\ first_pull' = m.first_pull
    /\ none_count' = m.none_count
    /\ dropped' = m.dropped
    /\ last_yield' = m.last_yield
    /\ last_live' = m.last_live
    /\ last_pending' = m.last_pending
    /\ mixed' = m.mixed

\* ---------------------------------------------------------------- helpers
RECURSIVE SeqSum(_)
SeqSum(s) == IF s = <<>> THEN 0 ELSE Head(s) + SeqSum(Tail(s))

Range(s) == {s[i] : i \in 1 .. Len(s)}

Occurrences(x, s) == Cardinality({i \in 1 .. Len(s) : s[i] = x})

Nulls(n) == [i \in 1 .. n |-> Null]

\* ------------------------------------------------- Mixer (mixer.cpp) parts
\* variant: the frame-boundary test is left out
InStep_Always(cnt) == TRUE

\* bool in_step = _sample_count % _input->_channel_count == 0;
InStep(cnt) == CounterRem(cnt, ChannelCount) = 0

\* variant: only the first pending source is admitted at a frame boundary
StartPendingPass_FirstOnly(cur, pend, cnt) ==
    IF InStep(cnt) /\ pend # <<>>
    THEN [current |-> Append(cur, Head(pend)), pending |-> Tail(pend),
          still |-> Nulls(Len(pend)), admitted |-> <<Head(pend)>>]
    ELSE [current |-> cur, pending |-> pend, still |-> Nulls(Len(pend)),
          admitted |-> <<>>]

\* variant: the admitted sources are copied, not moved, out of the pending list
StartPendingPass_Copy(cur, pend, cnt) ==
    IF InStep(cnt)
    THEN [current |-> cur \o pend, pending |-> pend, still |-> <<>>,
          admitted |-> pend]
    ELSE [current |-> cur, pending |-> pend, still |-> Nulls(Len(pend)),
          admitted |-> <<>>]

\* The loop and the swap of _start_pending_sources: every pending source is
\* moved to the active set when in step, to _still_pending otherwise; the
\* vectors are then swapped, which leaves the moved-from (null) handles in
\* _still_pending.
StartPendingPass(cur, pend, cnt) ==
    IF InStep(cnt)
    THEN [current |-> cur \o pend, pending |-> <<>>, still |-> Nulls(Len(pend)),
          admitted |-> pend]
    ELSE [current |-> cur, pending |-> pend, still |-> Nulls(Len(pend)),
          admitted |-> <<>>]

\* variant: the admission pass always clears the flag
HasPendingAfter_Clear(pend) == FALSE

\* bool has_pending = !_input->_pending_sources.empty();
HasPendingAfter(pend) == pend # <<>>

\* variant: add leaves the flag as it is
AddFlagValue_Keep(old) == old

\* _has_pending.store(true, release) in MixerController::add
AddFlagValue(old) == TRUE

\* One iteration of the loop of _sum_current_sources for source s, given
\* the outcome rest of the iterations after it: rem is the sources'
\* remaining samples before the iteration.
SumIteration(s, rem, rest) ==
    IF rem[s] # <<>>
    THEN [sum   |-> Head(rem[s]) + rest.sum,
          yield |-> <<Head(rem[s])>> \o rest.yield,
          still |-> <<s>> \o rest.still,
          old   |-> <<Null>> \o rest.old,
          rem   |-> rest.rem,
          ended |-> rest.ended]
    ELSE [sum   |-> rest.sum,
          yield |-> rest.yield,
          still |-> rest.still,
          old   |-> <<s>> \o rest.old,
          rem   |-> rest.rem,
          ended |-> <<s>> \o rest.ended]

\* source->next_sample() on the remaining samples: the head is consumed
PullSource(s, rem) ==
    IF rem[s] # <<>> THEN [rem EXCEPT ![s] = Tail(rem[s])] ELSE rem

\* The loop of _sum_current_sources over cur[i..], with rem threaded through
RECURSIVE SumLoop(_, _, _)
SumLoop(cur, rem, i) ==
    IF i > Len(cur)
    THEN [sum |-> 0, yield |-> <<>>, still |-> <<>>, old |-> <<>>, rem |-> rem,
          ended |-> <<>>]
    ELSE SumIteration(cur[i], rem, SumLoop(cur, PullSource(cur[i], rem), i + 1))

\* the swap of _sum_current_sources and its result
SumSwap(r) ==
    [sum |-> r.sum, current |-> r.still, still_current |-> r.old,
     rem |-> r.rem, yield |-> r.yield, ended |-> r.ended]

\* variant: exhausted sources are kept in the active set
SumCurrentSources_Keep(cur, rem) ==
    [SumSwap(SumLoop(cur, rem, 1)) EXCEPT !.current = cur]

\* Mixer::_sum_current_sources
SumCurrentSources(cur, rem) == SumSwap(SumLoop(cur, rem, 1))

\* variant: a sum of zero is reported as none
MixerResult_ZeroIsNone(cur, sum) == IF cur = <<>> \/ sum = 0 THEN None ELSE Some(sum)

\* variant: none is reported only when the sum is zero
MixerResult_BySum(cur, sum) == IF sum = 0 THEN None ELSE Some(sum)

\* if (_current_sources.empty()) return std::nullopt; return sum;
MixerResult(cur, sum) == IF cur = <<>> THEN None ELSE Some(sum)

\* ------------------------------------- Mixer / MixerController on the record
\* variant: the push_back also pulls the first sample out of the source
PushStep_Pulling(m, s) ==
    [m EXCEPT !.pending_sources = Append(@, s), !.added = @ \cup {s},
              !.remaining = [@ EXCEPT ![s] = IF @ = <<>> THEN @ ELSE Tail(@)]]

\* MixerController::add: _pending_sources.push_back(std::move(converted_source))
PushStep(m, s) ==
    [m EXCEPT !.pending_sources = Append(@, s), !.added = @ \cup {s}]

\* MixerController::add: _has_pending.store(true, release)
FlagStep(m) == [m EXCEPT !.has_pending = AddFlagValue(@)]

\* MixerController::add as run by one thread without interference
ControllerAdd(m, s) == FlagStep(PushStep(m, s))

\* Mixer::_start_pending_sources: _still_pending.clear()
ClearStep(m) == [m EXCEPT !.still_pending = <<>>]

\* the outcome r of the admission loop and swap, written to the Mixer
PassApply(m, r) ==
    [m EXCEPT !.current_sources = r.current,
              !.pending_sources = r.pending,
              !.still_pending = r.still,
              !.admitted_at = [s \in SourceIds |->
                    IF s \in Range(r.admitted) THEN m.calls ELSE m.admitted_at[s]],
              !.admit_count = [s \in SourceIds |->
                    m.admit_count[s] + Occurrences(s, r.admitted)]]

\* Mixer::_start_pending_sources: the loop over the pending list and the swap
PassStep(m) ==
    PassApply(m, StartPendingPass(m.current_sources, m.pending_sources, m.sample_count))

\* Mixer::_start_pending_sources: the store of the flag
StoreStep(m) == [m EXCEPT !.has_pending = HasPendingAfter(m.pending_sources)]

\* Mixer::_start_pending_sources
StartPendingSources(m) == StoreStep(PassStep(ClearStep(m)))

\* the outcome r of _sum_current_sources and the returned value, written to
\* the Mixer
SumApply(m, r, result) ==
    [m EXCEPT !.sample_count = CounterInc(@),
              !.current_sources = r.current,
              !.still_current = r.still_current,
              !.remaining = r.rem,
              !.ret = result,
              !.mixed = IF result = None THEN @ ELSE Append(@, result[1]),
              !.calls = @ + 1,
              !.last_yield = r.yield,
              !.last_live = (\E i \in 1 .. Len(m.current_sources) :
                                m.remaining[m.current_sources[i]] # <<>>),
              !.last_pending = (\E i \in 1 .. Len(m.pending_sources) :
                                m.remaining[m.pending_sources[i]] # <<>>),
              !.none_count = [s \in SourceIds |->
                                m.none_count[s] + Occurrences(s, r.ended)],
              !.dropped = @ \cup Range(r.ended),
              !.first_pull = [s \in SourceIds |->
                                IF s \in Range(m.current_sources) /\ m.first_pull[s] = -1
                                THEN m.calls ELSE m.first_pull[s]]]

\* if (_current_sources.empty()) return std::nullopt; return sum;
SumReturn(m, r) == SumApply(m, r, MixerResult(r.current, r.sum))

\* Mixer::next_sample from _sample_count += 1 to the return
SumStep(m) == SumReturn(m, SumCurrentSources(m.current_sources, m.remaining))

\* Mixer::next_sample as run by one thread without interference
MixerNextSample(m) ==
    SumStep(IF m.has_pending THEN StartPendingSources(m) ELSE m)

MixerFresh ==
    [has_pending |-> FALSE, pending_sources |-> <<>>, current_sources |-> <<>>,
     sample_count |-> CounterZero, still_pending |-> <<>>, still_current |-> <<>>,
     remaining |-> [s \in SourceIds |-> <<>>], ret |-> None, calls |-> 0,
     added |-> {}, admitted_at |-> [s \in SourceIds |-> -1],
     admit_count |-> [s \in SourceIds |-> 0], first_pull |-> [s \in SourceIds |-> -1],
     none_count |-> [s \in SourceIds |-> 0], dropped |-> {}, last_yield |-> <<>>,
     last_live |-> FALSE, last_pending |-> FALSE, mixed |-> <<>>]

\* ----------------------------------------- master chain: Amplify, Buffered
\* Amplify::next_sample, given the Mixer after its next_sample
AmplifyResult(m1) ==
    [m |-> m1, out |-> IF m1.ret = None THEN None ELSE Some(m1.ret[1] * Gain)]

\* Amplify::next_sample over the Mixer
AmplifyNext(m) == AmplifyResult(MixerNextSample(m))

\* Buffered::_buffer_size
BufferSize == BufferFrames * ChannelCount

RECURSIVE AdvanceLoop(_, _, _)
\* one iteration of the loop of _advance_buffer, given the outcome r of
\* _input->next_sample()
RECURSIVE AdvanceIteration(_, _, _)
AdvanceIteration(r, buf, i) ==
    IF r.out # None
    THEN AdvanceLoop(r.m, Append(buf, r.out[1]), i + 1)
    ELSE [m |-> r.m, buffer |-> buf]

\* the loop of Buffered::_advance_buffer from iteration i on
AdvanceLoop(m, buf, i) ==
    IF i >= BufferSize
    THEN [m |-> m, buffer |-> buf]
    ELSE AdvanceIteration(AmplifyNext(m), buf, i)

\* _buffer.clear(); _buffer_idx = 0; around the loop
AdvanceResult(r) == [m |-> r.m, buffer |-> r.buffer, buffer_idx |-> 0]

\* Buffered::_advance_buffer
AdvanceBuffer(m) == AdvanceResult(AdvanceLoop(m, <<>>, 0))

\* Buffered::next_sample returning sample after the refill a
BufferedRefilled(a, sample) ==
    [m |-> a.m, buffer |-> a.buffer, buffer_idx |-> a.buffer_idx, out |-> Some(sample)]

\* Buffered::next_sample
BufferedNext(m, buf, idx) ==
    IF buf = <<>>
    THEN [m |-> m, buffer |-> buf, buffer_idx |-> idx, out |-> None]
    ELSE IF idx + 1 >= Len(buf)
         THEN BufferedRefilled(AdvanceBuffer(m), buf[idx + 1])
         ELSE [m |-> m, buffer |-> buf, buffer_idx |-> idx + 1,
               out |-> Some(buf[idx + 1])]

\* ------------------------------------------------------------ render loop
\* music::map_seconds_to_resolution(time, 96, bpm) with time = t * dt and
\* dt = 1.0 / (sample_rate * channel_count)
MapSecondsToResolution(t) ==
    (t * Bpm * ResolutionPerBeat) \div (60 * DeviceRate * ChannelCount)

\* tanh(sample) in thousandths, rounded
Tanh(x) ==
    LET a == IF x < 0 THEN -x ELSE x
        v == CASE a = 0 -> 0
               [] a = 1 -> 762
               [] a = 2 -> 964
               [] a = 3 -> 995
               [] a = 4 -> 999
               [] OTHER -> 1000
    IN  IF x < 0 THEN -v ELSE v

RECURSIVE AddDue_Early(_, _, _)
\* variant: the sources are added whatever their start time is
AddDue_Early(m, src, res) ==
    IF src # <<>>
    THEN AddDue_Early(ControllerAdd(m, src[Len(src)][2]), SubSeq(src, 1, Len(src) - 1), res)
    ELSE [m |-> m, sources |-> src]

\* while (!sources.empty() && std::get<0>(sources.back()) <= resolution_time)
RECURSIVE AddDue(_, _, _)
AddDue(m, src, res) ==
    IF src # <<>> /\ src[Len(src)][1] <= res
    THEN AddDue(ControllerAdd(m, src[Len(src)][2]), SubSeq(src, 1, Len(src) - 1), res)
    ELSE [m |-> m, sources |-> src]

\* ------------------------------------------------------------------- Init
\* no device is running
NoDevice ==
    /\ queue = <<>>
    /\ empty_overlap_count = 0
    /\ samples_remaining = 0
    /\ data = <<>>
    /\ value = 0
    /\ live_i = 0
    /\ lpc = "off"
    /\ dpc = "off"
    /\ data_pos = 0
    /\ callbacks = 0
    /\ pulled = <<>>
    /\ entry_overlap = 0
    /\ entry_at = 0

\* no decorator chain has been built
NoChain ==
    /\ chain = <<>>
    /\ trace = <<>>

\* no device is being opened
NotOpening ==
    /\ sample_rates = <<>>
    /\ opened = 0
    /\ opc = "off"

\* no commands are being processed
NotCompiling ==
    /\ commands = <<>>
    /\ command_i = 0
    /\ final_commands = <<>>
    /\ repeat_stack = <<>>
    /\ kpc = "off"

\* the Mixer and its controller after Mixer::create_mixer; no master chain
\* no host device has been created
NoHost ==
    /\ is_open = FALSE
    /\ is_running = FALSE
    /\ device_callback = 0
    /\ client_started = FALSE
    /\ client_event = FALSE
    /\ tpc = "none"
    /\ apc = "off"
    /\ closing = FALSE
    /\ open_returned = "none"
    /\ quiet = TRUE

\* what stands for the result while Note::from_str has not returned
Unparsed == [ok |-> FALSE, error |-> "none", letter |-> 0, octave |-> 0]

\* no note is being parsed
NoNote ==
    /\ note_str = <<>>
    /\ note_parsed = Unparsed
    /\ npc = "off"

\* no sample is being exported
NoWave ==
    /\ wave_sample = 0
    /\ wave_pcm = 0
    /\ wpc = "off"

\* no Mixer for another channel count has been made
NoWrap ==
    /\ mixer_channels = 0
    /\ true_rem = 0

MixerCreated ==
    /\ InitMx(MixerFresh)
    /\ mtx = Free
    /\ content = [s \in SourceIds |-> <<>>]
    /\ next_id = 1
    /\ buffer = <<>>
    /\ buffer_idx = 0
    /\ sources = <<>>
    /\ time = 0
    /\ samples = <<>>
    /\ rpc = "off"
    /\ outputs = <<>>
    /\ handed = <<>>
    /\ ppc = [p \in Producers |-> "idle"]
    /\ hand = [p \in Producers |-> Null]
    /\ cpc = "idle"
    /\ returned = {}
    /\ waited = [s \in SourceIds |-> 0]

Init ==
    /\ MixerCreated
    /\ NoChain
    /\ NoDevice
    /\ NotOpening
    /\ NotCompiling
    /\ NoHost
    /\ NoNote
    /\ NoWave
    /\ NoWrap

\* ------------------------------------------- MixerController::add, by steps
\* auto converted_source = std::make_unique<Converter>(...);
\* std::scoped_lock lk(_pending_sources_mtx);
\* (building the converted source touches nothing shared, so it is one step
\* with taking the lock)
AddLock(p) ==
    /\ ppc[p] = "idle"
    /\ next_id <= MaxSources
    /\ mtx = Free
    /\ \E c \in Contents :
          /\ remaining' = [remaining EXCEPT ![next_id] = c]
          /\ content' = [content EXCEPT ![next_id] = c]
    /\ hand' = [hand EXCEPT ![p] = next_id]
    /\ next_id' = next_id + 1
    /\ mtx' = p
    /\ ppc' = [ppc EXCEPT ![p] = "push"]
    /\ UNCHANGED <<has_pending, pending_sources, current_sources, sample_count,
                   still_pending, still_current, ret, calls, added,
                   admitted_at, admit_count, first_pull, none_count, dropped,
                   last_yield, last_live, last_pending, mixed>>
    /\ UNCHANGED <<renderVars, chainVars, openVars, compileVars, hostVars, noteVars, waveVars, wrapVars, liveVars, cpc, returned, waited>>

\* _pending_sources.push_back(std::move(converted_source));
AddPush(p) ==
    /\ ppc[p] = "push"
    /\ SetMx(PushStep(Mx, hand[p]))
    /\ ppc' = [ppc EXCEPT ![p] = "store"]
    /\ UNCHANGED <<mtx, content, next_id, renderVars, chainVars, openVars, compileVars, hostVars, noteVars, waveVars, wrapVars, liveVars, hand, cpc, returned, waited>>

\* _has_pending.store(true, release); the lock is released as add returns
AddStore(p) ==
    /\ ppc[p] = "store"
    /\ SetMx(FlagStep(Mx))
    /\ mtx' = Free
    /\ returned' = returned \cup {hand[p]}
    /\ hand' = [hand EXCEPT ![p] = Null]
    /\ ppc' = [ppc EXCEPT ![p] = "idle"]
    /\ UNCHANGED <<content, next_id, renderVars, chainVars, openVars, compileVars, hostVars, noteVars, waveVars, wrapVars, liveVars, cpc, waited>>

\* ------------------------------------------------ Mixer::next_sample, by steps
\* if (_input->_has_pending.load(acquire))
NextLoad ==
    /\ cpc = "idle"
    /\ calls < MaxCalls
    /\ cpc' = IF has_pending THEN "start" ELSE "sum"
    /\ waited' = [s \in SourceIds |->
                    IF s \in returned /\ admit_count[s] = 0
                    THEN waited[s] + 1 ELSE waited[s]]
    /\ UNCHANGED <<mixVars, mtx, content, next_id, renderVars, chainVars, openVars, compileVars, hostVars, noteVars, waveVars, wrapVars, liveVars, ppc, hand, returned>>

\* _still_pending.clear(); std::scoped_lock lk(_input->_pending_sources_mtx);
StartLock ==
    /\ cpc = "start"
    /\ mtx = Free
    /\ mtx' = MixerThread
    /\ SetMx(ClearStep(Mx))
    /\ cpc' = "pass"
    /\ UNCHANGED <<content, next_id, renderVars, chainVars, openVars, compileVars, hostVars, noteVars, waveVars, wrapVars, liveVars, ppc, hand, returned, waited>>

\* the loop over _pending_sources and the swap
StartPass ==
    /\ cpc = "pass"
    /\ SetMx(PassStep(Mx))
    /\ cpc' = "store"
    /\ UNCHANGED <<mtx, content, next_id, renderVars, chainVars, openVars, compileVars, hostVars, noteVars, waveVars, wrapVars, liveVars, ppc, hand, returned, waited>>

\* _input->_has_pending.store(has_pending, release); the lock is released
StartStore ==
    /\ cpc = "store"
    /\ SetMx(StoreStep(Mx))
    /\ mtx' = Free
    /\ cpc' = "sum"
    /\ UNCHANGED <<content, next_id, renderVars, chainVars, openVars, compileVars, hostVars, noteVars, waveVars, wrapVars, liveVars, ppc, hand, returned, waited>>

\* _sample_count += 1; sum = _sum_current_sources(); return
NextSum ==
    /\ cpc = "sum"
    /\ SetMx(SumStep(Mx))
    /\ cpc' = "idle"
    /\ UNCHANGED <<mtx, content, next_id, renderVars, chainVars, openVars, compileVars, hostVars, noteVars, waveVars, wrapVars, liveVars, ppc, hand, returned, waited>>

Next ==
    \/ \E p \in Producers : AddLock(p)
    \/ \E p \in Producers : AddPush(p)
    \/ \E p \in Producers : AddStore(p)
    \/ NextLoad
    \/ StartLock
    \/ StartPass
    \/ StartStore
    \/ NextSum

\* producers calling MixerController::add while one consumer calls Mixer::next_sample
Spec == Init /\ [][Next]_vars

\* ------------------------------------------------- main: the render thread
StartTimes == {k * StartStep : k \in 0 .. MaxStartSteps}

\* the master chain Buffered(Amplify(Mixer)) as its construction a leaves it
InitChain(a) ==
    /\ InitMx(a.m)
    /\ buffer = a.buffer
    /\ buffer_idx = a.buffer_idx

\* main up to the render loop: the timeline is compiled and sorted in
\* descending order of start time, then the master chain
\* Buffered(Amplify(Mixer)) is built over the new Mixer.
InitRender ==
    \E n \in 0 .. MaxSources :
      \E st \in [1 .. n -> StartTimes], ct \in [1 .. n -> Contents] :
        /\ \A i \in 1 .. n - 1 : st[i] >= st[i + 1]
        /\ content = [s \in SourceIds |-> IF s <= n THEN ct[s] ELSE <<>>]
        /\ InitChain(AdvanceBuffer([MixerFresh EXCEPT !.remaining = content]))
        /\ sources = [i \in 1 .. n |-> <<st[i], i>>]
        /\ next_id = n + 1
        /\ mtx = Free
        /\ time = 0
        /\ samples = <<>>
        /\ rpc = "loop"
        /\ outputs = <<>>
        /\ handed = <<>>
        /\ ppc = [p \in Producers |-> "idle"]
        /\ hand = [p \in Producers |-> Null]
        /\ cpc = "idle"
        /\ returned = {}
        /\ waited = [s \in SourceIds |-> 0]
        /\ NoChain
        /\ NoDevice
        /\ NotOpening
        /\ NotCompiling
        /\ NoHost
        /\ NoNote
        /\ NoWave
        /\ NoWrap

\* the entries popped off the back of src down to length n, in the order of
\* popping, each with the resolution time res at which it was popped
Popped(src, n, res) ==
    [i \in 1 .. Len(src) - n |->
        <<src[Len(src) + 1 - i][1], src[Len(src) + 1 - i][2], res>>]

\* the rest of an iteration that did not break: due is the outcome of
\* adding the sources that are due
RenderContinue(due) ==
    /\ rpc' = "loop"
    /\ SetMx(due.m)
    /\ sources' = due.sources
    /\ handed' = handed \o Popped(sources, Len(due.sources), MapSecondsToResolution(time))
    /\ time' = time + 1

\* an iteration of the render loop after output->next_sample() gave b
RenderIteration(b) ==
    /\ buffer' = b.buffer
    /\ buffer_idx' = b.buffer_idx
    /\ outputs' = IF b.out # None THEN Append(outputs, b.out[1]) ELSE outputs
    /\ samples' = IF b.out # None THEN Append(samples, Tanh(b.out[1])) ELSE samples
    /\ pulled' = Append(pulled, b.out)
    /\ IF b.out = None /\ sources = <<>>
       THEN /\ rpc' = "done"
            /\ SetMx(b.m)
            /\ UNCHANGED <<sources, time, handed>>
       ELSE RenderContinue(AddDue(b.m, sources, MapSecondsToResolution(time)))

\* one iteration of while (true) in main
RenderLoop ==
    /\ rpc = "loop"
    /\ RenderIteration(BufferedNext(Mx, buffer, buffer_idx))
    /\ UNCHANGED <<mtx, content, next_id, threadVars, chainVars, openVars, compileVars, hostVars, noteVars, waveVars, wrapVars>>
    /\ UNCHANGED <<queue, callbackVars, value, live_i, lpc>>

NextRender == RenderLoop

\* the render thread of main, which is also the only caller of add
SpecRender == InitRender /\ [][NextRender]_vars

\* ------------------------------------------------------ decorator chains
\* A chain is a finite source with decorators built over it, one owning the
\* next: nodes[1] is the innermost source, nodes[k] wraps nodes[k - 1].  A
\* chain c is the record [nodes, trace]; trace[k] lists what next_sample()
\* of nodes[k] has returned so far, which is also everything nodes[k + 1]
\* has pulled from its input.

\* Source::next_sample of a source that holds finitely many samples (such as
\* WaveFile): the samples in order, then none on every call
Source_next_sample(c, k) ==
    IF c.nodes[k].remaining # <<>>
    THEN [c |-> [c EXCEPT !.nodes[k].remaining = Tail(@)],
          out |-> Some(Head(c.nodes[k].remaining))]
    ELSE [c |-> c, out |-> None]

\* the callback handed to Filter: a transform of the sample that depends on
\* info.current_sample
FilterCallback(sample, info) == sample + info.current_sample

RECURSIVE channel_count(_, _)
\* Source::channel_count() of nodes[k]
channel_count(c, k) ==
    CASE c.nodes[k].kind = "Source" -> c.nodes[k].channel_count
      [] c.nodes[k].kind = "ChannelConverter" -> c.nodes[k].to
      [] OTHER -> channel_count(c, k - 1)

RECURSIVE sample_rate(_, _)
\* Source::sample_rate() of nodes[k]; SampleRateConverter returns _to, the
\* target rate divided by the greatest common divisor
sample_rate(c, k) ==
    CASE c.nodes[k].kind = "Source" -> c.nodes[k].sample_rate
      [] c.nodes[k].kind = "SampleRateConverter" -> c.nodes[k].to
      [] OTHER -> sample_rate(c, k - 1)

RECURSIVE total_duration(_, _)
\* Source::total_duration() of nodes[k], in nanoseconds: unknown unless a
\* class overrides it; Filter does not
total_duration(c, k) ==
    CASE c.nodes[k].kind = "Source" -> None
      [] c.nodes[k].kind = "Filter" -> None
      [] c.nodes[k].kind = "Duration" -> Some(c.nodes[k].requested_duration_ns)
      [] c.nodes[k].kind = "Delay" ->
            IF total_duration(c, k - 1) # None
            THEN Some(c.nodes[k].requested_delay_ns + total_duration(c, k - 1)[1])
            ELSE None
      [] OTHER -> total_duration(c, k - 1)

RECURSIVE gcd(_, _)
\* T gcd(T a, T b)
gcd(a, b) == IF b = 0 THEN a ELSE gcd(b, a % b)

Min(a, b) == IF a < b THEN a ELSE b

\* the value r.out is noted in the trace of nodes[k]
Returned(r, k) ==
    [c |-> [r.c EXCEPT !.trace[k] = Append(@, r.out)], out |-> r.out]

RECURSIVE next_sample(_, _)

\* Amplify::next_sample, r being the outcome of _input->next_sample()
Amplify_result(r, amp) ==
    [c |-> r.c, out |-> IF r.out # None THEN Some(r.out[1] * amp) ELSE None]

Amplify_next_sample(c, k) == Amplify_result(next_sample(c, k - 1), c.nodes[k].amp)

\* Duration::next_sample after the budget test, r being the outcome of
\* _input->next_sample()
Duration_result(r, k) ==
    [c |-> [r.c EXCEPT !.nodes[k].remaining_duration_ns =
                          @ - r.c.nodes[k].duration_ns_per_sample],
     out |-> r.out]

Duration_next_sample(c, k) ==
    IF c.nodes[k].remaining_duration_ns <= c.nodes[k].duration_ns_per_sample
    THEN [c |-> c, out |-> None]
    ELSE Duration_result(next_sample(c, k - 1), k)

\* variant: the input is pulled, and its sample dropped, during the silence
Delay_next_sample_Pulling(c, k) ==
    IF c.nodes[k].remaining_delay_ns <= c.nodes[k].duration_ns_per_sample
    THEN next_sample(c, k - 1)
    ELSE [c |-> [next_sample(c, k - 1).c EXCEPT !.nodes[k].remaining_delay_ns =
                                                 @ - c.nodes[k].duration_ns_per_sample],
          out |-> Some(0)]

\* Delay::next_sample
Delay_next_sample(c, k) ==
    IF c.nodes[k].remaining_delay_ns <= c.nodes[k].duration_ns_per_sample
    THEN next_sample(c, k - 1)
    ELSE [c |-> [c EXCEPT !.nodes[k].remaining_delay_ns =
                             @ - c.nodes[k].duration_ns_per_sample],
          out |-> Some(0)]

\* Filter::next_sample, r being the outcome of _input->next_sample() and
\* info the FilterInfo filled in before it
Filter_result(r, k, info) ==
    [c |-> [r.c EXCEPT !.nodes[k].current_sample = @ + 1],
     out |-> IF r.out # None THEN Some(FilterCallback(r.out[1], info)) ELSE None]

Filter_next_sample(c, k) ==
    Filter_result(next_sample(c, k - 1), k,
                  [current_sample |-> c.nodes[k].current_sample,
                   sample_rate |-> sample_rate(c, k - 1)])

RECURSIVE Buffered_advance_loop(_, _, _)
\* one iteration of the loop of Buffered::_advance_buffer, r being the
\* outcome of _input->next_sample()
Buffered_advance_iteration(r, k, i) ==
    IF r.out # None
    THEN Buffered_advance_loop([r.c EXCEPT !.nodes[k].buffer = Append(@, r.out[1])],
                               k, i + 1)
    ELSE r.c

\* for (int i = 0; i < _buffer_size; ++i)
Buffered_advance_loop(c, k, i) ==
    IF i >= c.nodes[k].buffer_size
    THEN c
    ELSE Buffered_advance_iteration(next_sample(c, k - 1), k, i)

\* variant: the refill drops the sample that ends the loop's first iteration
Buffered_advance_buffer_SkipFirst(c, k) ==
    Buffered_advance_loop(
        [next_sample(c, k - 1).c EXCEPT !.nodes[k].buffer = <<>>,
                                        !.nodes[k].buffer_idx = 0], k, 0)

\* Buffered::_advance_buffer
Buffered_advance_buffer(c, k) ==
    Buffered_advance_loop([c EXCEPT !.nodes[k].buffer = <<>>,
                                    !.nodes[k].buffer_idx = 0], k, 0)

\* Buffered::next_sample
Buffered_next_sample(c, k) ==
    IF c.nodes[k].buffer = <<>>
    THEN [c |-> c, out |-> None]
    ELSE IF c.nodes[k].buffer_idx + 1 >= Len(c.nodes[k].buffer)
         THEN [c |-> Buffered_advance_buffer(c, k),
               out |-> Some(c.nodes[k].buffer[c.nodes[k].buffer_idx + 1])]
         ELSE [c |-> [c EXCEPT !.nodes[k].buffer_idx = @ + 1],
               out |-> Some(c.nodes[k].buffer[c.nodes[k].buffer_idx + 1])]

\* variant: an end-of-stream of the input leaves the repeat sample as it was
RepeatSample_KeepOnNone(old, sample) == IF sample = None THEN old ELSE sample

\* _repeat_sample = sample;
RepeatSample(old, sample) == sample

\* the branch of ChannelConverter::next_sample that copies the last input
\* channel, r being the outcome of _input->next_sample()
ChannelConverter_last(r, k) ==
    [c |-> [r.c EXCEPT !.nodes[k].repeat_sample = RepeatSample(@, r.out)],
     out |-> r.out]

\* variant: the extra output channels replay nothing
ChannelConverter_extra_Silent(n) == Some(0)

\* result = _repeat_sample;
ChannelConverter_extra(n) == n.repeat_sample

\* the three branches of ChannelConverter::next_sample that set result
ChannelConverter_result(c, k) ==
    IF c.nodes[k].next_output_sample_pos = c.nodes[k].from - 1
    THEN ChannelConverter_last(next_sample(c, k - 1), k)
    ELSE IF c.nodes[k].next_output_sample_pos < c.nodes[k].from
         THEN next_sample(c, k - 1)
         ELSE [c |-> c, out |-> ChannelConverter_extra(c.nodes[k])]

\* variant: the surplus input channels are left in the input
DiscardEnd_None(from, to) == to

\* for (int i = _to; i < _from; ++i): the bound of the loop
DiscardEnd(from, to) == from

RECURSIVE ChannelConverter_discard(_, _, _)
\* the loop that discards the input samples of the channels that are dropped
ChannelConverter_discard(c, k, i) ==
    IF i < DiscardEnd(c.nodes[k].from, c.nodes[k].to)
    THEN ChannelConverter_discard(next_sample(c, k - 1).c, k, i + 1)
    ELSE c

\* ++_next_output_sample_pos and the wrap, r being the result so far
ChannelConverter_wrap(r, k) ==
    IF r.c.nodes[k].next_output_sample_pos + 1 = r.c.nodes[k].to
    THEN [c |-> ChannelConverter_discard(
                    [r.c EXCEPT !.nodes[k].next_output_sample_pos = 0],
                    k, r.c.nodes[k].to),
          out |-> r.out]
    ELSE [c |-> [r.c EXCEPT !.nodes[k].next_output_sample_pos = @ + 1],
          out |-> r.out]

\* ChannelConverter::next_sample
ChannelConverter_next_sample(c, k) ==
    IF c.nodes[k].from = c.nodes[k].to
    THEN next_sample(c, k - 1)
    ELSE ChannelConverter_wrap(ChannelConverter_result(c, k), k)

RECURSIVE next_input_frame_loop(_, _, _)
\* one iteration of the loop of _next_input_frame, r being the outcome of
\* _input->next_sample()
next_input_frame_iteration(r, k, i) ==
    IF r.out # None
    THEN next_input_frame_loop(
             [r.c EXCEPT !.nodes[k].next_frame = Append(@, r.out[1])], k, i + 1)
    ELSE r.c

\* variant: a frame is read with one sample too many
FrameEnd_Extra(n) == n.channels + 1

\* for (int i = 0; i < _channels; ++i): the bound of the loop
FrameEnd(n) == n.channels

next_input_frame_loop(c, k, i) ==
    IF i >= FrameEnd(c.nodes[k])
    THEN c
    ELSE next_input_frame_iteration(next_sample(c, k - 1), k, i)

\* variant: _next_frame is not cleared before it is filled
next_input_frame_Keeping(c, k) ==
    next_input_frame_loop(
        [c EXCEPT !.nodes[k].current_frame_idx = @ + 1,
                  !.nodes[k].current_frame = c.nodes[k].next_frame], k, 0)

\* SampleRateConverter::_next_input_frame
next_input_frame(c, k) ==
    next_input_frame_loop(
        [c EXCEPT !.nodes[k].current_frame_idx = @ + 1,
                  !.nodes[k].current_frame = c.nodes[k].next_frame,
                  !.nodes[k].next_frame = <<>>], k, 0)

RECURSIVE advance_until(_, _, _)
\* while (_current_frame_idx != target) _next_input_frame();
advance_until(c, k, target) ==
    IF c.nodes[k].current_frame_idx # target
    THEN advance_until(next_input_frame(c, k), k, target)
    ELSE c

\* auto left_sample_idx = (_from * _next_frame_idx / _to) % _from;
LeftSampleIdx(n) == ((n.from * n.next_frame_idx) \div n.to) % n.from

\* the window is moved to the input frames the next output frame lies between
SampleRateConverter_seek(c, k) ==
    IF c.nodes[k].next_frame_idx = c.nodes[k].to
    THEN [advance_until(next_input_frame(
                            [c EXCEPT !.nodes[k].next_frame_idx = 0], k),
                        k, c.nodes[k].from)
            EXCEPT !.nodes[k].current_frame_idx = 0]
    ELSE advance_until(c, k, LeftSampleIdx(c.nodes[k]))

\* variant: the weight is taken from the position in the input cycle
LerpWeight_Swapped(n) == (n.to * n.next_frame_idx) % n.from

\* auto lerp_factor = (double)((_from * _next_frame_idx) % _to) / _to;
\* (the numerator; the factor is this over _to)
LerpWeight(n) == (n.from * n.next_frame_idx) % n.to

\* cur_sample * (1.0f - lerp_factor) + next_sample * lerp_factor, as a
\* multiple of 1/_to: the samples a converter returns are counted in units
\* of 1/_to of the unit of its input
Lerp(cur, nxt, w, to) == cur * (to - w) + nxt * w

\* the interpolated frame: one sample per channel both frames hold
LerpFrame(n) ==
    [i \in 1 .. Min(Len(n.current_frame), Len(n.next_frame)) |->
        Lerp(n.current_frame[i], n.next_frame[i], LerpWeight(n), n.to)]

\* a frame of input samples in the unit of the output
Rescaled(frame, to) == [i \in 1 .. Len(frame) |-> frame[i] * to]

\* variant: a frame that has no next frame is dropped
Flushed_Nothing(n) == <<>>

\* if (!_current_frame.empty()): the current frame, which is returned as it
\* is when nothing was interpolated
Flushed(n) == n.current_frame

\* SampleRateConverter::next_sample from the interpolation to the return;
\* frame is the interpolated frame
SampleRateConverter_emit(c, k, frame) ==
    IF frame # <<>>
    THEN [c |-> [c EXCEPT !.nodes[k].output_buffer = @ \o Tail(frame),
                          !.nodes[k].next_frame_idx = @ + 1],
          out |-> Some(Head(frame))]
    ELSE IF Flushed(c.nodes[k]) # <<>>
         THEN [c |-> [c EXCEPT !.nodes[k].next_frame_idx = @ + 1,
                               !.nodes[k].output_buffer =
                                   Rescaled(Tail(Flushed(c.nodes[k])),
                                            c.nodes[k].to),
                               !.nodes[k].current_frame = <<>>],
               out |-> Some(Head(Flushed(c.nodes[k])) * c.nodes[k].to)]
         ELSE [c |-> [c EXCEPT !.nodes[k].next_frame_idx = @ + 1], out |-> None]

\* SampleRateConverter::next_sample once the output queue is empty
SampleRateConverter_interpolate(c, k) ==
    SampleRateConverter_emit(c, k, LerpFrame(c.nodes[k]))

\* SampleRateConverter::next_sample
SampleRateConverter_next_sample(c, k) ==
    IF c.nodes[k].from = c.nodes[k].to
    THEN next_sample(c, k - 1)
    ELSE IF c.nodes[k].output_buffer # <<>>
         THEN [c |-> [c EXCEPT !.nodes[k].output_buffer = Tail(@)],
               out |-> Some(Head(c.nodes[k].output_buffer))]
         ELSE SampleRateConverter_interpolate(SampleRateConverter_seek(c, k), k)

\* nodes[k]->next_sample(), by the class of nodes[k]
Dispatch(c, k) ==
    CASE c.nodes[k].kind = "Source" -> Source_next_sample(c, k)
      [] c.nodes[k].kind = "Amplify" -> Amplify_next_sample(c, k)
      [] c.nodes[k].kind = "Duration" -> Duration_next_sample(c, k)
      [] c.nodes[k].kind = "Delay" -> Delay_next_sample(c, k)
      [] c.nodes[k].kind = "Filter" -> Filter_next_sample(c, k)
      [] c.nodes[k].kind = "Buffered" -> Buffered_next_sample(c, k)
      [] c.nodes[k].kind = "ChannelConverter" -> ChannelConverter_next_sample(c, k)
      [] c.nodes[k].kind = "SampleRateConverter" -> SampleRateConverter_next_sample(c, k)

next_sample(c, k) == Returned(Dispatch(c, k), k)

\* ------------------------------------------------- decorator constructors
\* a node is put on top of the chain, before its constructor body runs
Wrap(c, node) ==
    [nodes |-> Append(c.nodes, node), trace |-> Append(c.trace, <<>>)]

\* static constexpr uint64_t NANO_PER_SEC = 1000000000;
NANO_PER_SEC == 1000000000

\* NANO_PER_SEC / (_input->sample_rate() * _input->channel_count())
DurationNsPerSample(c) ==
    NANO_PER_SEC \div (sample_rate(c, Len(c.nodes)) * channel_count(c, Len(c.nodes)))

\* Amplify::Amplify
Amplify_new(c, amp) == Wrap(c, [kind |-> "Amplify", amp |-> amp])

\* Duration::Duration
Duration_new(c, duration_ns) ==
    Wrap(c, [kind |-> "Duration",
             requested_duration_ns |-> duration_ns,
             remaining_duration_ns |-> duration_ns,
             duration_ns_per_sample |-> DurationNsPerSample(c)])

\* Delay::Delay
Delay_new(c, delay_ns) ==
    Wrap(c, [kind |-> "Delay",
             requested_delay_ns |-> delay_ns,
             remaining_delay_ns |-> delay_ns,
             duration_ns_per_sample |-> DurationNsPerSample(c)])

\* variant: the first index is 1
Filter_new_FromOne(c) == Wrap(c, [kind |-> "Filter", current_sample |-> 1])

\* Filter::Filter
Filter_new(c) == Wrap(c, [kind |-> "Filter", current_sample |-> 0])

\* Buffered::Buffered: the buffer is filled in the constructor
Buffered_new(c, buffer_size) ==
    Buffered_advance_buffer(
        Wrap(c, [kind |-> "Buffered",
                 buffer_size |-> buffer_size * channel_count(c, Len(c.nodes)),
                 buffer |-> <<>>,
                 buffer_idx |-> 0]),
        Len(c.nodes) + 1)

\* ChannelConverter::ChannelConverter
ChannelConverter_new(c, to_channels) ==
    Wrap(c, [kind |-> "ChannelConverter",
             from |-> channel_count(c, Len(c.nodes)),
             to |-> to_channels,
             repeat_sample |-> None,
             next_output_sample_pos |-> 0])

RECURSIVE first_samples_loop(_, _, _, _)
\* one iteration of a loop of the constructor that reads a frame into field
\* f: unlike _next_input_frame it goes on after an end-of-stream
first_samples_iteration(r, k, f, i) ==
    first_samples_loop(
        IF r.out # None THEN [r.c EXCEPT !.nodes[k][f] = Append(@, r.out[1])] ELSE r.c,
        k, f, i + 1)

first_samples_loop(c, k, f, i) ==
    IF i >= c.nodes[k].channels
    THEN c
    ELSE first_samples_iteration(next_sample(c, k - 1), k, f, i)

\* variant: the first two frames are read whatever the rates are
ReadsAhead_Always(from, to) == TRUE

\* if (from != to)
ReadsAhead(from, to) == from # to

\* the body of SampleRateConverter::SampleRateConverter
SampleRateConverter_init(c, k, from, to) ==
    IF ReadsAhead(from, to)
    THEN first_samples_loop(first_samples_loop(c, k, "current_frame", 0),
                            k, "next_frame", 0)
    ELSE c

\* SampleRateConverter::SampleRateConverter
SampleRateConverter_new(c, to_sample_rate) ==
    SampleRateConverter_init(
        Wrap(c, [kind |-> "SampleRateConverter",
                 from |-> sample_rate(c, Len(c.nodes))
                            \div gcd(sample_rate(c, Len(c.nodes)), to_sample_rate),
                 to |-> to_sample_rate
                            \div gcd(sample_rate(c, Len(c.nodes)), to_sample_rate),
                 channels |-> channel_count(c, Len(c.nodes)),
                 current_frame |-> <<>>,
                 next_frame |-> <<>>,
                 output_buffer |-> <<>>,
                 current_frame_idx |-> 0,
                 next_frame_idx |-> 0]),
        Len(c.nodes) + 1, sample_rate(c, Len(c.nodes)), to_sample_rate)

\* Converter::Converter: a ChannelConverter over a SampleRateConverter
Converter_new(c, channels, rate) ==
    ChannelConverter_new(SampleRateConverter_new(c, rate), channels)

\* the decorator d = [kind, arg] is built over the chain c
Decorate(c, d) ==
    CASE d.kind = "Amplify" -> Amplify_new(c, d.arg)
      [] d.kind = "Duration" -> Duration_new(c, d.arg)
      [] d.kind = "Delay" -> Delay_new(c, d.arg)
      [] d.kind = "Filter" -> Filter_new(c)
      [] d.kind = "Buffered" -> Buffered_new(c, d.arg)
      [] d.kind = "ChannelConverter" -> ChannelConverter_new(c, d.arg)
      [] d.kind = "SampleRateConverter" -> SampleRateConverter_new(c, d.arg)

RECURSIVE Build(_, _, _)
\* the decorators ds[i..] are built over c, innermost first
Build(c, ds, i) ==
    IF i > Len(ds) THEN c ELSE Build(Decorate(c, ds[i]), ds, i + 1)

\* the value of the i-th sample of an input: distinct and not linear in i
InputSample(i) == i * i

\* a source of n samples with the given format
NewSource(n, channels, rate) ==
    [nodes |-> <<[kind |-> "Source",
                  remaining |-> [i \in 1 .. n |-> InputSample(i)],
                  channel_count |-> channels,
                  sample_rate |-> rate]>>,
     trace |-> <<<<>>>>]

\* some of audio::get_standard_sample_rates()
Rates == {8000, 12000, 16000}

\* the rates of the innermost sources
SourceRates == {8000, 12000}

DurationLimits == {100000, 250000}

DelayLengths == {150000}

Decorators ==
    [kind : {"Amplify"}, arg : {Gain}]
    \cup [kind : {"Duration"}, arg : DurationLimits]
    \cup [kind : {"Delay"}, arg : DelayLengths]
    \cup [kind : {"Filter"}, arg : {0}]
    \cup [kind : {"Buffered"}, arg : 1 .. MaxBufferFrames]
    \cup [kind : {"ChannelConverter"}, arg : 1 .. MaxChannels + 1]
    \cup [kind : {"SampleRateConverter"}, arg : Rates]

\* every chain of at most MaxDepth decorators over a source of at most
\* MaxInput samples, as its constructors leave it
ChainIs(c) ==
    /\ chain = c.nodes
    /\ trace = c.trace

InitDecorated ==
    /\ MixerCreated
    /\ NoDevice
    /\ NotOpening
    /\ NotCompiling
    /\ NoHost
    /\ NoNote
    /\ NoWave
    /\ NoWrap
    /\ \E d \in 0 .. MaxDepth, n \in 0 .. MaxInput, ch \in 1 .. MaxChannels, r \in SourceRates :
         \E ds \in [1 .. d -> Decorators] :
            ChainIs(Build(NewSource(n, ch, r), ds, 1))

SetChain(r) ==
    /\ chain' = r.c.nodes
    /\ trace' = r.c.trace

\* the owner of the chain calls next_sample() of its outermost node
ChainPull ==
    /\ Len(trace[Len(chain)]) < MaxPulls
    /\ SetChain(next_sample([nodes |-> chain, trace |-> trace], Len(chain)))
    /\ UNCHANGED <<mixVars, mtx, content, next_id, renderVars, threadVars, liveVars>>
    /\ UNCHANGED <<openVars, compileVars, hostVars, noteVars, waveVars, wrapVars>>

NextChain == ChainPull

\* a decorator chain pulled by its owner until MaxPulls calls were made
SpecChain == InitDecorated /\ [][NextChain]_vars

\* ------------------------------------------------- device output hand-off
\* moodycamel::ConcurrentQueue<float, ...> queue(frame_count * 2), with
\* frame_count = buffer_size * channel_count
QueueCapacity == 2 * CallbackFrames * ChannelCount

\* .value_or(0.0)
ValueOr(opt, default) == IF opt = None THEN default ELSE opt[1]

\* what the render loop makes of the result of output->next_sample():
\* value_or(0.0), then tanh, then the cast to float for the queue
Rendered(opt) == Tanh(ValueOr(opt, 0))

\* a slot of the hardware buffer nothing was written to: it holds what it
\* held before the callback
StaleSlot == [real |-> FALSE, k |-> -2, v |-> 0, writes |-> 0]

Stale(n) == [i \in 1 .. n |-> StaleSlot]

\* a slot of the hardware buffer filled by memset(data, 0, ...)
ZeroSlot == [real |-> FALSE, k |-> -1, v |-> 0, writes |-> 1]

Zeros(n) == [i \in 1 .. n |-> ZeroSlot]

\* the slots std::copy_n fills with the dequeued samples s, the first of
\* which is the k-th sample (k from 0) ever dequeued
RealSlots(s, k) ==
    [i \in 1 .. Len(s) |-> [real |-> TRUE, k |-> k + i - 1, v |-> s[i], writes |-> 1]]

\* a slot after one more write, of content w
Overwritten(old, w) == [w EXCEPT !.writes = old.writes + 1]

Max(a, b) == IF a < b THEN b ELSE a

\* the buffers d after the slots w were written from position at on (at
\* slots lie before the first one written); a write past the end of d shows
\* as further slots
Written(d, at, w) ==
    [i \in 1 .. Max(Len(d), at + Len(w)) |->
        IF i > at /\ i <= at + Len(w)
        THEN Overwritten(IF i <= Len(d) THEN d[i] ELSE StaleSlot, w[i - at])
        ELSE d[i]]

\* the samples that were dequeued, as the slots of data show them
RealCount(d) == Cardinality({i \in 1 .. Len(d) : d[i].real})

RECURSIVE AddAll(_, _)
\* mixer_controller->add(...) for the sources 1..n, in turn
AddAll(m, n) == IF n = 0 THEN m ELSE ControllerAdd(AddAll(m, n - 1), n)

\* main (earlier version) up to the render loop: the device is started, the
\* sources are added to the controller and then the master chain
\* Buffered(Amplify(Mixer)) is built
InitLive ==
    \E n \in 0 .. LiveSources :
      \E ct \in [1 .. n -> Contents] :
        /\ content = [s \in SourceIds |-> IF s <= n THEN ct[s] ELSE <<>>]
        /\ InitChain(AdvanceBuffer(AddAll([MixerFresh EXCEPT !.remaining = content], n)))
        /\ next_id = n + 1
        /\ mtx = Free
        /\ sources = <<>>
        /\ time = 0
        /\ samples = <<>>
        /\ rpc = "off"
        /\ outputs = <<>>
        /\ handed = <<>>
        /\ ppc = [p \in Producers |-> "idle"]
        /\ hand = [p \in Producers |-> Null]
        /\ cpc = "idle"
        /\ returned = 1 .. n
        /\ waited = [s \in SourceIds |-> 0]
        /\ NoChain
        /\ NotOpening
        /\ NotCompiling
        /\ NoHost
        /\ NoNote
        /\ NoWave
        /\ NoWrap
        /\ data_pos = 0
        /\ queue = <<>>
        /\ empty_overlap_count = 0
        /\ samples_remaining = 0
        /\ data = <<>>
        /\ value = 0
        /\ live_i = 0
        /\ lpc = "while"
        /\ dpc = "idle"
        /\ callbacks = 0
        /\ pulled = <<>>
        /\ entry_overlap = 0
        /\ entry_at = 0

\* while (... < 10000): the loop goes on while the time is not up
LiveWhile ==
    /\ lpc = "while"
    /\ Len(pulled) + ChannelCount <= MaxRendered
    /\ lpc' = "pull"
    /\ live_i' = 0
    /\ UNCHANGED <<mixVars, mtx, content, next_id, renderVars, threadVars, chainVars, openVars, compileVars, hostVars, noteVars, waveVars, wrapVars>>
    /\ UNCHANGED <<queue, callbackVars, value, pulled>>

\* the time is up: the loop ends and device.close() stops the callbacks
LiveClose ==
    /\ lpc = "while"
    /\ dpc = "idle"
    /\ lpc' = "done"
    /\ dpc' = "off"
    /\ UNCHANGED <<mixVars, mtx, content, next_id, renderVars, threadVars, chainVars, openVars, compileVars, hostVars, noteVars, waveVars, wrapVars>>
    /\ UNCHANGED <<queue, empty_overlap_count, samples_remaining, data, data_pos,
                   callbacks, entry_overlap, entry_at, value, live_i, pulled>>

\* output->next_sample() has given b
LivePulled(b) ==
    /\ SetMx(b.m)
    /\ buffer' = b.buffer
    /\ buffer_idx' = b.buffer_idx
    /\ outputs' = IF b.out # None THEN Append(outputs, b.out[1]) ELSE outputs
    /\ pulled' = Append(pulled, b.out)
    /\ value' = Rendered(b.out)

\* auto value = output->next_sample().value_or(0.0); value = tanh(value);
LivePull ==
    /\ lpc = "pull"
    /\ LivePulled(BufferedNext(Mx, buffer, buffer_idx))
    /\ lpc' = "enqueue"
    /\ UNCHANGED <<mtx, content, next_id, sources, time, samples, rpc, handed, threadVars,
                   chainVars, openVars, compileVars, hostVars, noteVars, waveVars, wrapVars, queue, callbackVars, live_i>>

\* while (!queue.try_enqueue((float)value)); ends when an enqueue succeeds
EnqueueDone(ok) == ok

\* try_enqueue succeeds while the queue holds fewer samples than it was
\* built for
TryEnqueue(q, v) ==
    IF Len(q) < QueueCapacity
    THEN [ok |-> TRUE, queue |-> Append(q, v)]
    ELSE [ok |-> FALSE, queue |-> q]

\* one try_enqueue with outcome e; a failed one leaves the loop spinning
LiveEnqueued(e) ==
    /\ EnqueueDone(e.ok)
    /\ queue' = e.queue
    /\ live_i' = live_i + 1
    /\ lpc' = IF live_i + 1 < ChannelCount THEN "pull" ELSE "while"

LiveEnqueue ==
    /\ lpc = "enqueue"
    /\ LiveEnqueued(TryEnqueue(queue, value))
    /\ UNCHANGED <<mixVars, mtx, content, next_id, renderVars, threadVars, chainVars, openVars, compileVars, hostVars, noteVars, waveVars, wrapVars>>
    /\ UNCHANGED <<callbackVars, value, pulled>>

\* the zero fill on entry to the callback: the slots written and what is
\* left of samples_remaining and empty_overlap_count
EntryFill(overlap, rest) ==
    IF overlap > 0 /\ overlap <= rest
    THEN [zeros |-> overlap, remaining |-> rest - overlap, overlap |-> 0]
    ELSE [zeros |-> 0, remaining |-> rest, overlap |-> overlap]

\* the device calls the callback for CallbackFrames frames
CallbackEntered(e) ==
    /\ data' = Written(data \o Stale(ChannelCount * CallbackFrames), Len(data),
                       Zeros(e.zeros))
    /\ data_pos' = e.zeros
    /\ samples_remaining' = e.remaining
    /\ empty_overlap_count' = e.overlap
    /\ dpc' = IF e.remaining > 0 THEN "loop" ELSE "idle"
    /\ callbacks' = callbacks + 1
    /\ entry_overlap' = empty_overlap_count
    /\ entry_at' = Len(data)

CallbackEnter ==
    /\ dpc = "idle"
    /\ callbacks < MaxCallbacks
    /\ CallbackEntered(EntryFill(empty_overlap_count, ChannelCount * CallbackFrames))
    /\ UNCHANGED <<mixVars, mtx, content, next_id, renderVars, threadVars, chainVars, openVars, compileVars, hostVars, noteVars, waveVars, wrapVars>>
    /\ UNCHANGED <<queue, value, live_i, lpc, pulled>>

\* if (samples_remaining < channel_count)
\*     empty_overlap_count = channel_count - samples_remaining;
OverlapAfter(rest, old) ==
    IF rest < ChannelCount THEN ChannelCount - rest ELSE old

\* variant: one slot is zeroed at a time
ZeroFillCount_One(rest) == 1

\* count = std::min(samples_remaining, channel_count);
ZeroFillCount(rest) == Min(rest, ChannelCount)

\* one iteration of while (samples_remaining > 0): count samples are
\* dequeued in bulk and copied, which moves the pointer data on, or the
\* queue is empty and zeros are written where data points, which does not
CallbackIteration(count) ==
    IF count > 0
    THEN /\ data' = Written(data, entry_at + data_pos,
                            RealSlots(SubSeq(queue, 1, count), RealCount(data)))
         /\ data_pos' = data_pos + count
         /\ queue' = SubSeq(queue, count + 1, Len(queue))
         /\ samples_remaining' = samples_remaining - count
         /\ dpc' = IF samples_remaining - count > 0 THEN "loop" ELSE "idle"
         /\ UNCHANGED empty_overlap_count
    ELSE /\ data' = Written(data, entry_at + data_pos,
                            Zeros(ZeroFillCount(samples_remaining)))
         /\ data_pos' = data_pos
         /\ empty_overlap_count' = OverlapAfter(samples_remaining, empty_overlap_count)
         /\ samples_remaining' = samples_remaining - ZeroFillCount(samples_remaining)
         /\ dpc' = IF samples_remaining - ZeroFillCount(samples_remaining) > 0
                   THEN "loop" ELSE "idle"
         /\ UNCHANGED queue

\* auto count = (int)queue.try_dequeue_bulk(samples_buffer.data(), samples_remaining);
CallbackLoop ==
    /\ dpc = "loop"
    /\ CallbackIteration(Min(Len(queue), samples_remaining))
    /\ UNCHANGED <<mixVars, mtx, content, next_id, renderVars, threadVars, chainVars, openVars, compileVars, hostVars, noteVars, waveVars, wrapVars>>
    /\ UNCHANGED <<callbacks, entry_overlap, entry_at, value, live_i, lpc, pulled>>

NextLive ==
    \/ LiveWhile
    \/ LiveClose
    \/ LivePull
    \/ LiveEnqueue
    \/ CallbackEnter
    \/ CallbackLoop

\* live playback: the render loop feeds the device queue while the device
\* thread runs the callback
SpecLive == InitLive /\ [][NextLive]_vars

\* ------------------------------------------------------ opening the device
\* audio::get_standard_sample_rates()
StandardRates ==
    {8000, 9600, 11025, 12000, 16000, 22050, 24000, 32000, 44100, 48000, 88200,
     96000, 192000}

\* main: int sample_rate = 48000;
MainDesiredRate == 48000

\* OutputStream::try_default: int desired_sample_rate = 44100;
StreamDesiredRate == 44100

\* the rates of S in rising order
SortedRates(S) ==
    CHOOSE s \in [1 .. Cardinality(S) -> S] :
        \A i \in 1 .. Cardinality(S) - 1 : s[i] < s[i + 1]

\* variant: the first rate above x (std::upper_bound)
LowerBound_Above(s, x) == Cardinality({i \in 1 .. Len(s) : s[i] <= x}) + 1

\* std::lower_bound(s.begin(), s.end(), x) on a sorted s: the position of
\* the first element that is not less than x, Len(s) + 1 for s.end()
LowerBound(s, x) == Cardinality({i \in 1 .. Len(s) : s[i] < x}) + 1

\* sample_rate = sample_rate_it == sample_rates.end()
\*                   ? sample_rates.back() : *sample_rate_it;
MainSampleRate(rates, it) == IF it > Len(rates) THEN rates[Len(rates)] ELSE rates[it]

\* the device is found; its list of rates is sorted and not empty
InitOpen ==
    /\ MixerCreated
    /\ NoChain
    /\ NoDevice
    /\ NotCompiling
    /\ NoHost
    /\ NoNote
    /\ NoWave
    /\ NoWrap
    /\ \E S \in SUBSET StandardRates :
          /\ Cardinality(S) \in 1 .. MaxRates
          /\ sample_rates = SortedRates(S)
    /\ opened = 0
    /\ opc = "start"

\* main: the rate is looked up and device.open(sample_rate) is called
MainOpen ==
    /\ opc = "start"
    /\ opened' = MainSampleRate(sample_rates, LowerBound(sample_rates, MainDesiredRate))
    /\ opc' = "main"
    /\ UNCHANGED <<mixVars, mtx, content, next_id, renderVars, threadVars, chainVars,
                   liveVars, compileVars, hostVars, noteVars, waveVars, wrapVars, sample_rates>>

\* OutputStream::try_default after the look-up, it being its outcome: none
\* is returned at sample_rates.end(), else device.open(*actual_sample_rate)
\* is called
TryDefaultOpened(it) ==
    IF it > Len(sample_rates)
    THEN opened' = 0 /\ opc' = "none"
    ELSE opened' = sample_rates[it] /\ opc' = "stream"

\* OutputStream::try_default
TryDefault ==
    /\ opc = "start"
    /\ TryDefaultOpened(LowerBound(sample_rates, StreamDesiredRate))
    /\ UNCHANGED <<mixVars, mtx, content, next_id, renderVars, threadVars, chainVars,
                   liveVars, compileVars, hostVars, noteVars, waveVars, wrapVars, sample_rates>>

NextOpen ==
    \/ MainOpen
    \/ TryDefault

\* the device is opened, by main or by OutputStream::try_default
SpecOpen == InitOpen /\ [][NextOpen]_vars

\* ------------------------------------------- repeat expansion of commands
\* the commands of a pattern or a track, as [name, arg]: arg is the count of
\* a repeat
Command ==
    [name : {"repeat"}, arg : 0 .. MaxRepeat]
    \cup [name : {"end-repeat"}, arg : {0}]
    \cup [name : {"delay", "play"}, arg : {1}]

RECURSIVE Repeated(_, _)
\* while (repeat_count > 0) { --repeat_count; insert(...) }: xs, n times
Repeated(xs, n) == IF n <= 0 THEN <<>> ELSE xs \o Repeated(xs, n - 1)

\* cur_target->insert(cur_target->end(), ...) or cur_target->push_back(...):
\* cur_target points to the top of repeat_stack, or to final_commands when
\* the stack is empty; it is set anew after every push_back and pop_back of
\* the stack
InsertAtTarget(final, stack, xs) ==
    IF stack = <<>>
    THEN [final |-> final \o xs, stack |-> stack, error |-> FALSE]
    ELSE [final |-> final,
          stack |-> [stack EXCEPT ![Len(stack)] = @ \o xs],
          error |-> FALSE]

\* variant: the repeat command at the head of the list is inserted as well
RepeatBody_WithHead(repeat_commands) == repeat_commands

\* repeat_commands.begin() + 1 to repeat_commands.end()
RepeatBody(repeat_commands) == Tail(repeat_commands)

\* the branch for CommandEndRepeat, the stack not being empty
EndRepeat(final, stack) ==
    InsertAtTarget(final, SubSeq(stack, 1, Len(stack) - 1),
                   IF Len(stack[Len(stack)]) > 1
                   THEN Repeated(RepeatBody(stack[Len(stack)]), stack[Len(stack)][1].arg)
                   ELSE <<>>)

\* one iteration of for (auto& command : commands)
CommandStep(final, stack, command) ==
    CASE command.name = "repeat" ->
            [final |-> final, stack |-> Append(stack, <<command>>), error |-> FALSE]
      [] command.name = "end-repeat" ->
            IF stack = <<>>
            THEN [final |-> final, stack |-> stack, error |-> TRUE]
            ELSE EndRepeat(final, stack)
      [] OTHER -> InsertAtTarget(final, stack, <<command>>)

\* process_pattern_commands or process_track_commands is called with a
\* list of at most MaxCommands parsed commands
InitCommands ==
    /\ MixerCreated
    /\ NoChain
    /\ NoDevice
    /\ NotOpening
    /\ NoHost
    /\ NoNote
    /\ NoWave
    /\ NoWrap
    /\ commands \in UNION {[1 .. n -> Command] : n \in 0 .. MaxCommands}
    /\ command_i = 0
    /\ final_commands = <<>>
    /\ repeat_stack = <<>>
    /\ kpc = "loop"

ProcessedCommand(r) ==
    /\ final_commands' = r.final
    /\ repeat_stack' = r.stack
    /\ kpc' = IF r.error THEN "error" ELSE "loop"
    /\ command_i' = command_i + 1

\* the loop over the commands, which both functions have
ProcessCommand ==
    /\ kpc = "loop"
    /\ command_i < Len(commands)
    /\ ProcessedCommand(CommandStep(final_commands, repeat_stack, commands[command_i + 1]))
    /\ UNCHANGED <<mixVars, mtx, content, next_id, renderVars, threadVars, chainVars,
                   liveVars, openVars, hostVars, noteVars, waveVars, wrapVars, commands>>

\* process_pattern_commands after the loop: an error is returned if the
\* stack is not empty
PatternCommandsDone ==
    /\ kpc = "loop"
    /\ command_i = Len(commands)
    /\ kpc' = IF repeat_stack # <<>> THEN "error" ELSE "pattern"
    /\ UNCHANGED <<mixVars, mtx, content, next_id, renderVars, threadVars, chainVars,
                   liveVars, openVars, hostVars, noteVars, waveVars, wrapVars, commands, command_i, final_commands, repeat_stack>>

\* process_track_commands after the loop: it goes on with final_commands
TrackCommandsDone ==
    /\ kpc = "loop"
    /\ command_i = Len(commands)
    /\ kpc' = "track"
    /\ UNCHANGED <<mixVars, mtx, content, next_id, renderVars, threadVars, chainVars,
                   liveVars, openVars, hostVars, noteVars, waveVars, wrapVars, commands, command_i, final_commands, repeat_stack>>

NextCommands ==
    \/ ProcessCommand
    \/ PatternCommandsDone
    \/ TrackCommandsDone

\* the commands of a pattern or a track are expanded
SpecCommands == InitCommands /\ [][NextCommands]_vars

\* ------------------------------------------ WasapiOutputDevice (audio_wasapi.h)
\* the rates a device may report, and the rates main and the stream ask for
DeviceRateLists == {<<44100>>, <<48000>>, <<44100, 48000>>}

RequestedRates == {MainDesiredRate, StreamDesiredRate}

\* WasapiOutputDevice::WasapiOutputDevice: the constructor initializes neither
\* _is_open nor _is_running, and a default-initialized std::atomic<bool> has
\* an indeterminate value under C++17, so each of them starts with either value
InitDevice ==
    /\ MixerCreated
    /\ NoChain
    /\ NoDevice
    /\ NotCompiling
    /\ NoNote
    /\ NoWave
    /\ NoWrap
    /\ sample_rates \in DeviceRateLists
    /\ opened = 0
    /\ opc = "off"
    /\ is_open \in BOOLEAN
    /\ is_running \in BOOLEAN
    /\ device_callback = 0
    /\ client_started = FALSE
    /\ client_event = FALSE
    /\ tpc = "none"
    /\ apc = "idle"
    /\ closing = FALSE
    /\ open_returned = "none"
    /\ quiet = TRUE

\* what the device model leaves alone
OtherThanDevice ==
    <<mixVars, mtx, content, next_id, renderVars, threadVars, chainVars, liveVars,
      compileVars, noteVars, waveVars, wrapVars, sample_rates, opc>>

\* std::any_of(_sample_rates.begin(), _sample_rates.end(), rate == desired)
RateSupported(rates, desired) == \E i \in 1 .. Len(rates) : rates[i] = desired

\* return true; at the end of open, past the if (SUCCEEDED(...Initialize...))
OpenResult(initialized) == "true"

\* WasapiOutputDevice::open; initialized is the outcome of
\* IAudioClient::Initialize. Assigning to a _client_thread that is still
\* joinable ends the process (std::terminate).
DeviceOpen ==
    /\ apc = "idle"
    /\ \E desired \in RequestedRates, initialized \in BOOLEAN :
          /\ opened' = desired
          /\ IF ~RateSupported(sample_rates, desired)
             THEN /\ open_returned' = "false"
                  /\ UNCHANGED <<is_open, tpc, apc>>
             ELSE IF initialized
                  THEN IF tpc = "none"
                       THEN /\ is_open' = TRUE
                            /\ tpc' = "while"
                            /\ open_returned' = OpenResult(TRUE)
                            /\ UNCHANGED apc
                       ELSE /\ is_open' = TRUE
                            /\ apc' = "aborted"
                            /\ UNCHANGED <<tpc, open_returned>>
                  ELSE /\ open_returned' = OpenResult(FALSE)
                       /\ UNCHANGED <<is_open, tpc, apc>>
    /\ UNCHANGED <<is_running, device_callback, client_started, client_event,
                   closing, quiet>>
    /\ UNCHANGED OtherThanDevice

\* WasapiOutputDevice::start up to the store of the callback:
\* assert(_is_open); if (_is_running) return;
DeviceStart ==
    /\ apc = "idle"
    /\ apc' = IF ~is_open THEN "aborted"
              ELSE IF is_running THEN "idle" ELSE "start_callback"
    /\ UNCHANGED <<is_open, is_running, device_callback, client_started,
                   client_event, tpc, closing, open_returned, quiet, opened>>
    /\ UNCHANGED OtherThanDevice

\* _callback = std::move(callback); the assignment is not atomic: while the
\* client thread tests or runs _callback the outcome is undefined, so the
\* process may also end there
StartCallback ==
    /\ apc = "start_callback"
    /\ \/ /\ device_callback' = 1
          /\ quiet' = FALSE
          /\ apc' = "start_client"
       \/ /\ tpc \in {"process", "call"}
          /\ apc' = "aborted"
          /\ UNCHANGED <<device_callback, quiet>>
    /\ UNCHANGED <<is_open, is_running, client_started, client_event, tpc,
                   closing, open_returned, opened>>
    /\ UNCHANGED OtherThanDevice

\* _client->Start();
StartClient ==
    /\ apc = "start_client"
    /\ client_started' = TRUE
    /\ apc' = "start_flag"
    /\ UNCHANGED <<is_open, is_running, device_callback, client_event, tpc,
                   closing, open_returned, quiet, opened>>
    /\ UNCHANGED OtherThanDevice

\* _is_running.store(true, release); start returns
StartFlag ==
    /\ apc = "start_flag"
    /\ is_running' = TRUE
    /\ apc' = "idle"
    /\ UNCHANGED <<is_open, device_callback, client_started, client_event, tpc,
                   closing, open_returned, quiet, opened>>
    /\ UNCHANGED OtherThanDevice

\* where stop() returns to: its caller, or close() past its call of stop()
AfterStop(in_close) == IF in_close THEN "close_flag" ELSE "idle"

\* WasapiOutputDevice::stop up to the store of the flag, called by the user
\* (in_close = FALSE) or as the first statement of close:
\* assert(_is_open); if (!_is_running) return;
StopEntry(in_close) ==
    /\ apc = "idle"
    /\ closing' = in_close
    /\ apc' = IF ~is_open THEN "aborted"
              ELSE IF ~is_running THEN AfterStop(in_close) ELSE "stop_flag"
    /\ quiet' = IF is_open /\ ~is_running /\ ~in_close THEN TRUE ELSE quiet
    /\ UNCHANGED <<is_open, is_running, device_callback, client_started,
                   client_event, tpc, open_returned, opened>>
    /\ UNCHANGED OtherThanDevice

DeviceStop == StopEntry(FALSE)

\* WasapiOutputDevice::close: stop();
DeviceClose == StopEntry(TRUE)

\* _is_running.store(false, release);
StopFlag ==
    /\ apc = "stop_flag"
    /\ is_running' = FALSE
    /\ apc' = "stop_client"
    /\ UNCHANGED <<is_open, device_callback, client_started, client_event, tpc,
                   closing, open_returned, quiet, opened>>
    /\ UNCHANGED OtherThanDevice

\* _client->Stop(); _client->Reset(); stop returns
StopClient ==
    /\ apc = "stop_client"
    /\ client_started' = FALSE
    /\ apc' = AfterStop(closing)
    /\ quiet' = IF closing THEN quiet ELSE TRUE
    /\ UNCHANGED <<is_open, is_running, device_callback, client_event, tpc,
                   closing, open_returned, opened>>
    /\ UNCHANGED OtherThanDevice

\* close: _is_open.store(false, release);
CloseFlag ==
    /\ apc = "close_flag"
    /\ is_open' = FALSE
    /\ apc' = "close_event"
    /\ UNCHANGED <<is_running, device_callback, client_started, client_event,
                   tpc, closing, open_returned, quiet, opened>>
    /\ UNCHANGED OtherThanDevice

\* close: SetEvent(_client_event);
CloseEvent ==
    /\ apc = "close_event"
    /\ client_event' = TRUE
    /\ apc' = "close_join"
    /\ UNCHANGED <<is_open, is_running, device_callback, client_started, tpc,
                   closing, open_returned, quiet, opened>>
    /\ UNCHANGED OtherThanDevice

\* close: _client_thread.join(); _render_client = nullptr; _client = nullptr;
\* and close returns. join() of a thread that was never started throws, which
\* nothing catches.
CloseJoin ==
    /\ apc = "close_join"
    /\ tpc \in {"none", "exited"}
    /\ IF tpc = "none"
       THEN /\ apc' = "aborted"
            /\ UNCHANGED <<tpc, closing, quiet, open_returned>>
       ELSE /\ tpc' = "none"
            /\ apc' = "idle"
            /\ closing' = FALSE
            /\ quiet' = TRUE
            /\ open_returned' = "none"
    /\ UNCHANGED <<is_open, is_running, device_callback, client_started,
                   client_event, opened>>
    /\ UNCHANGED OtherThanDevice

\* _task_client_thread: while (device->_is_open.load(acquire))
ThreadWhile ==
    /\ apc # "aborted"
    /\ tpc = "while"
    /\ tpc' = IF is_open THEN "wait" ELSE "exited"
    /\ UNCHANGED <<is_open, is_running, device_callback, client_started,
                   client_event, apc, closing, open_returned, quiet, opened>>
    /\ UNCHANGED OtherThanDevice

\* try_process: WaitForSingleObject(_client_event, 5000): the event, once
\* set, is taken and reset; while it is not set the wait can time out
ThreadWait ==
    /\ apc # "aborted"
    /\ tpc = "wait"
    /\ tpc' = IF client_event THEN "running" ELSE "while"
    /\ client_event' = FALSE
    /\ UNCHANGED <<is_open, is_running, device_callback, client_started, apc,
                   closing, open_returned, quiet, opened>>
    /\ UNCHANGED OtherThanDevice

\* try_process: if (_is_running.load(acquire)) _process();
ThreadRunning ==
    /\ apc # "aborted"
    /\ tpc = "running"
    /\ tpc' = IF is_running THEN "process" ELSE "while"
    /\ UNCHANGED <<is_open, is_running, device_callback, client_started,
                   client_event, apc, closing, open_returned, quiet, opened>>
    /\ UNCHANGED OtherThanDevice

\* _process: the buffer is fetched; if (_callback) the callback is entered,
\* else the buffer is zeroed and released
ThreadProcess ==
    /\ apc # "aborted"
    /\ tpc = "process"
    /\ tpc' = IF device_callback # 0 THEN "call" ELSE "while"
    /\ UNCHANGED <<is_open, is_running, device_callback, client_started,
                   client_event, apc, closing, open_returned, quiet, opened>>
    /\ UNCHANGED OtherThanDevice

\* the callback returns; _render_client->ReleaseBuffer(frames_count, 0);
ThreadReturn ==
    /\ apc # "aborted"
    /\ tpc = "call"
    /\ tpc' = "while"
    /\ UNCHANGED <<is_open, is_running, device_callback, client_started,
                   client_event, apc, closing, open_returned, quiet, opened>>
    /\ UNCHANGED OtherThanDevice

\* the audio engine sets the event whenever a started client has room for data
EngineSignal ==
    /\ apc # "aborted"
    /\ client_started
    /\ ~client_event
    /\ client_event' = TRUE
    /\ UNCHANGED <<is_open, is_running, device_callback, client_started, tpc,
                   apc, closing, open_returned, quiet, opened>>
    /\ UNCHANGED OtherThanDevice

NextDevice ==
    \/ DeviceOpen
    \/ DeviceStart
    \/ StartCallback
    \/ StartClient
    \/ StartFlag
    \/ DeviceStop
    \/ DeviceClose
    \/ StopFlag
    \/ StopClient
    \/ CloseFlag
    \/ CloseEvent
    \/ CloseJoin
    \/ ThreadWhile
    \/ ThreadWait
    \/ ThreadRunning
    \/ ThreadProcess
    \/ ThreadReturn
    \/ EngineSignal

\* one thread using a WasapiOutputDevice, its client thread and the audio engine
SpecDevice == InitDevice /\ [][NextDevice]_vars

\* ------------------------------------------------------- Note (note.h, note.cpp)
\* constexpr int NUM_NOTES = 12;
NUM_NOTES == 12

\* if (str.length() < 2 || str.length() > 3): the longest string that is parsed
MaxNoteLength == 3

Digits == <<"0", "1", "2", "3", "4", "5", "6", "7", "8", "9">>

UpperLetters == {"A", "B", "C", "D", "E", "F", "G"}

LowerLetters == {"a", "b", "c", "d", "e", "f", "g"}

\* the characters a note is written with, and some that no note has
NoteChars == UpperLetters \cup {"a", "b", "H", "#", "x"} \cup Range(Digits)

IsDigit(ch) == \E i \in 1 .. Len(Digits) : Digits[i] = ch

\* the value %u reads from one digit
DigitValue(ch) == (CHOOSE i \in 1 .. Len(Digits) : Digits[i] = ch) - 1

\* enum class Letter : uint8_t, for the letters without a modifier
LetterValue(ch) ==
    CASE ch = "C" -> 0
      [] ch = "D" -> 2
      [] ch = "E" -> 4
      [] ch = "F" -> 5
      [] ch = "G" -> 7
      [] ch = "A" -> 9
      [] ch = "B" -> 11

NoteError(e) == [ok |-> FALSE, error |-> e, letter |-> 0, octave |-> 0]

\* the two sscanf calls: the first character is the letter, the last has to
\* be a digit for %u to match, a character between them is the modifier
\* (modifier_c stays 0, written "" here, when there is none)
Scanned(str) ==
    [matched |-> IsDigit(str[Len(str)]),
     letter_c |-> str[1],
     modifier_c |-> IF Len(str) = 3 THEN str[2] ELSE "",
     octave_c |-> str[Len(str)]]

\* if (modifier_c == '#') base += 1; else if (modifier_c == 'b') base -= 1;
Modified(base, modifier_c) ==
    IF modifier_c = "#" THEN base + 1
    ELSE IF modifier_c = "b" THEN base - 1 ELSE base

\* if (base < 0) base += detail::NUM_NOTES;
Wrapped(base) == IF base < 0 THEN base + NUM_NOTES ELSE base

\* Note::from_str from the switch over the letter to the return
NoteOfScanned(f) ==
    IF f.letter_c \in LowerLetters THEN NoteError("LowerCase")
    ELSE IF f.letter_c \notin UpperLetters THEN NoteError("DoesNotExist")
    ELSE IF f.modifier_c \notin {"#", "b", ""} THEN NoteError("InvalidModifier")
    ELSE IF DigitValue(f.octave_c) > 9 THEN NoteError("InvalidOctave")
    ELSE [ok |-> TRUE, error |-> "none",
          letter |-> Wrapped(Modified(LetterValue(f.letter_c), f.modifier_c)),
          octave |-> DigitValue(f.octave_c)]

\* Note::from_str
Note_from_str(str) ==
    IF Len(str) < 2 \/ Len(str) > MaxNoteLength
    THEN NoteError("UnexpectedLength")
    ELSE IF ~Scanned(str).matched
         THEN NoteError("InvalidFormat")
         ELSE NoteOfScanned(Scanned(str))

\* detail::get_note_idx
get_note_idx(letter, octave) == NUM_NOTES * octave + letter

\* Note::from_str is called with a string of up to MaxNoteLength + 1 characters
InitNote ==
    /\ MixerCreated
    /\ NoChain
    /\ NoDevice
    /\ NotOpening
    /\ NotCompiling
    /\ NoHost
    /\ NoWave
    /\ NoWrap
    /\ note_str \in UNION {[1 .. n -> NoteChars] : n \in 1 .. MaxNoteLength + 1}
    /\ note_parsed = Unparsed
    /\ npc = "call"

ParseNote ==
    /\ npc = "call"
    /\ note_parsed' = Note_from_str(note_str)
    /\ npc' = "done"
    /\ UNCHANGED <<mixVars, mtx, content, next_id, renderVars, threadVars, chainVars,
                   liveVars, openVars, compileVars, hostVars, waveVars, wrapVars,
                   note_str>>

NextNote == ParseNote

\* a note name is parsed
SpecNote == InitNote /\ [][NextNote]_vars

\* ------------------------------------- export_samples_as_wave (wave_importer.h)
\* sample * 0x8fff: the factor
PcmScale == 36863

Int16Min == -32768

Int16Max == 32767

\* the integer part of a / b for b > 0, as a conversion from double takes it
TruncDiv(a, b) == IF a >= 0 THEN a \div b ELSE -((-a) \div b)

\* sample * 0x8fff for the sample k / SampleSteps with its fraction dropped
ScaledSample(k) == TruncDiv(k * PcmScale, SampleSteps)

\* the low 16 bits of x read as a signed number
LowWord(x) == IF (x % Half) > Int16Max THEN (x % Half) - Half ELSE x % Half

\* (int16_t)(double): the value when it fits; otherwise the conversion is
\* undefined, and what comes out is the low word of a 32-bit conversion or
\* the indefinite value of a 16-bit one
ToInt16(x) ==
    IF x >= Int16Min /\ x <= Int16Max THEN {x} ELSE {LowWord(x), Int16Min}

\* export_samples_as_wave reaches a sample of the buffer, any multiple of
\* 1 / SampleSteps in [-1, 1]
InitWave ==
    /\ MixerCreated
    /\ NoChain
    /\ NoDevice
    /\ NotOpening
    /\ NotCompiling
    /\ NoHost
    /\ NoNote
    /\ NoWrap
    /\ wave_sample \in -SampleSteps .. SampleSteps
    /\ wave_pcm = 0
    /\ wpc = "convert"

\* int16_t pcm = (int16_t)(sample * 0x8fff); file.write(&pcm, ...);
ExportSample ==
    /\ wpc = "convert"
    /\ wave_pcm' \in ToInt16(ScaledSample(wave_sample))
    /\ wpc' = "written"
    /\ UNCHANGED <<mixVars, mtx, content, next_id, renderVars, threadVars, chainVars,
                   liveVars, openVars, compileVars, hostVars, noteVars, wrapVars,
                   wave_sample>>

NextWave == ExportSample

\* one sample of the export buffer is converted and written
SpecWave == InitWave /\ [][NextWave]_vars

\* ------------------------------------ the sample counter over very long runs
\* the value of _sample_count after 2^32 - k calls
CounterBeforeWrap(k) == <<Half - 1, Half - k>>

\* Mixer::create_mixer(channels, sample_rate) for any channel count, and
\* next_sample() called 2^32 - k times with no source added: the counter
\* stands k calls before it wraps around, the lists are empty
InitWrap ==
    /\ \E k \in 1 .. WrapMargin :
          InitMx([MixerFresh EXCEPT !.sample_count = CounterBeforeWrap(k)])
    /\ mixer_channels \in 1 .. MaxChannels + 1
    /\ true_rem = CounterRem(sample_count, mixer_channels)
    /\ mtx = Free
    /\ content = [s \in SourceIds |-> <<>>]
    /\ next_id = 1
    /\ buffer = <<>>
    /\ buffer_idx = 0
    /\ sources = <<>>
    /\ time = 0
    /\ samples = <<>>
    /\ rpc = "off"
    /\ outputs = <<>>
    /\ handed = <<>>
    /\ ppc = [p \in Producers |-> "idle"]
    /\ hand = [p \in Producers |-> Null]
    /\ cpc = "idle"
    /\ returned = {}
    /\ waited = [s \in SourceIds |-> 0]
    /\ NoChain
    /\ NoDevice
    /\ NotOpening
    /\ NotCompiling
    /\ NoHost
    /\ NoNote
    /\ NoWave

\* Mixer::next_sample is called once more, until the counter stands
\* WrapMargin calls past the wrap
WrapNextSample ==
    /\ sample_count[1] # 0 \/ sample_count[2] < WrapMargin
    /\ SetMx(MixerNextSample(Mx))
    /\ true_rem' = (true_rem + 1) % mixer_channels
    /\ UNCHANGED <<mtx, content, next_id, renderVars, threadVars, chainVars, liveVars,
                   openVars, compileVars, hostVars, noteVars, waveVars, mixer_channels>>

NextWrap == WrapNextSample

\* a Mixer that runs past 2^32 samples
SpecWrap == InitWrap /\ [][NextWrap]_vars

\* ------------------------------------------------------------- properties
\* C1: every source the Mixer moves from the pending list into the active
\* set is moved in a next_sample call before which the Mixer has completed
\* a multiple of ChannelCount calls, and the source is first pulled in that
\* same call, so its first sample is summed into channel 0 of a frame.
C1_AdmittedOnFrameBoundary ==
    \A s \in SourceIds :
        /\ admitted_at[s] # -1 => admitted_at[s] % ChannelCount = 0
        /\ first_pull[s] # -1 => first_pull[s] = admitted_at[s]

\* a source that had to wait for the frame boundary and was then admitted and pulled
C1_Witness ==
    \E s \in SourceIds :
        /\ waited[s] >= 2
        /\ admitted_at[s] > 0
        /\ first_pull[s] = admitted_at[s]

\* C2: admission is exactly-once: every added source is in exactly one of the
\* pending list, the active set and the dropped sources, a source not yet
\* added is in none of them, and no source is admitted twice.
C2_ExactlyOnce ==
    \A s \in SourceIds :
        LET places == Occurrences(s, pending_sources)
                      + Occurrences(s, current_sources)
                      + (IF s \in dropped THEN 1 ELSE 0)
        IN  /\ admit_count[s] <= 1
            /\ places = IF s \in added THEN 1 ELSE 0

\* one source dropped, another active, while a producer is inside add
C2_Witness ==
    \E s, t \in SourceIds :
        /\ s \in dropped
        /\ Occurrences(t, current_sources) = 1
        /\ admit_count[s] = 1
        /\ admit_count[t] = 1

\* C3: whenever the pending-list mutex is not held, the has-pending flag is
\* true exactly when the pending list is non-empty; in particular the flag
\* the admission pass leaves behind is false iff no source remained pending.
C3_FlagMatchesPending ==
    mtx = Free => (has_pending <=> pending_sources # <<>>)

\* an admission pass has just ended that left a source pending and the flag set
C3_Witness ==
    /\ cpc = "sum"
    /\ mtx = Free
    /\ has_pending
    /\ \E s \in SourceIds :
          /\ Occurrences(s, pending_sources) = 1
          /\ waited[s] >= 1
          /\ admit_count[s] = 0

\* C4: no lost wakeup: a source whose add has returned is admitted by the
\* admission step of at most the ChannelCount-th next_sample call that
\* begins after the return.
C4_NoLostWakeup ==
    \A s \in SourceIds :
        /\ waited[s] <= ChannelCount
        /\ (waited[s] = ChannelCount /\ cpc \in {"store", "sum", "idle"})
              => admit_count[s] = 1

\* a source that needed all ChannelCount calls
C4_Witness ==
    \E s \in SourceIds : waited[s] = ChannelCount /\ admit_count[s] = 1

\* C5 as stated: next_sample returns none once all active and pending
\* sources are exhausted, and never returns none while a source that still
\* has samples is active or pending.
C5_Original ==
    calls > 0 =>
        /\ (~last_live /\ ~last_pending) => ret = None
        /\ ret = None => (~last_live /\ ~last_pending)

\* C5 amended: next_sample returns none exactly when no source of the active
\* set, as it is after the call's admission step, has a sample left; a
\* source still pending after that step does not prevent none.
C5_NoneIffNoActiveSample ==
    calls > 0 => (ret = None <=> ~last_live)

\* none was returned while a source with samples left was pending
C5_Witness ==
    /\ calls > 0
    /\ ret = None
    /\ last_pending

\* C6 as stated: a source added while the master chain is being pulled gets
\* played: when the render loop has ended every added source has delivered
\* all its samples to the Mixer and every value the Mixer returned has come
\* out of the chain scaled by the gain.
C6_AddedSourceIsPlayed ==
    rpc = "done" =>
        /\ \A s \in added : remaining[s] = <<>>
        /\ outputs = [i \in 1 .. Len(mixed) |-> Gain * mixed[i]]

\* C7 as stated: the render loop ends only when no source is left in the
\* timeline, pending in the controller or active in the Mixer.
C7_LoopEndsWhenIdle ==
    rpc = "done" =>
        /\ sources = <<>>
        /\ pending_sources = <<>>
        /\ current_sources = <<>>

\* C8 as stated: a score with a single note exports exactly the samples of
\* that note.
C8_SingleNoteLength ==
    (rpc = "done" /\ next_id = 2) => Len(samples) = Len(content[1])

\* C9: a source whose next_sample has returned end-of-stream is out of the
\* active set from that call on and is never pulled again; an admitted
\* source that has not returned end-of-stream is in the active set.
C9_DropOnExhaustion ==
    \A s \in SourceIds :
        /\ none_count[s] <= 1
        /\ none_count[s] = 1 => Occurrences(s, current_sources) = 0
        /\ (admit_count[s] >= 1 /\ none_count[s] = 0)
              => Occurrences(s, current_sources) = 1

\* one source was dropped and calls followed, another was pulled and stayed
C9_Witness ==
    \E s, t \in SourceIds :
        /\ none_count[s] = 1
        /\ none_count[t] = 0
        /\ first_pull[t] # -1
        /\ admitted_at[s] < admitted_at[t]
        /\ calls > first_pull[t] + 1

\* the sources that have a sample for call k: those first pulled at or
\* before k whose content reaches that far
Contributors(k) ==
    {s \in SourceIds : /\ first_pull[s] # -1
                       /\ first_pull[s] <= k
                       /\ k - first_pull[s] < Len(content[s])}

RECURSIVE ContributionSum(_, _)
ContributionSum(S, k) ==
    IF S = {} THEN 0
    ELSE LET s == CHOOSE x \in S : TRUE
         IN  content[s][k - first_pull[s] + 1] + ContributionSum(S \ {s}, k)

\* C10: next_sample returns the sum of the samples the active sources hold
\* for this call, each source delivering its samples in order from the call
\* of its first pull; it returns none only when no source contributes, and
\* a value, also a sum of exactly zero, when some source does.
C10_SumOrNone ==
    calls > 0 =>
        LET S == Contributors(calls - 1)
        IN  /\ ret = None <=> S = {}
            /\ S # {} => ret = Some(ContributionSum(S, calls - 1))

\* two sources cancelled to zero and a value was returned
C10_Witness ==
    /\ calls > 0
    /\ Cardinality(Contributors(calls - 1)) = 2
    /\ ret = Some(0)

\* ---------------------------------------------- properties of the decorators
\* the values of a trace in order, the end-of-stream results left out
RECURSIVE Values(_)
Values(t) == IF t = <<>> THEN <<>> ELSE Head(t) \o Values(Tail(t))

\* the levels of the chain that hold a node of the given class
Levels(kind) == {k \in 2 .. Len(chain) : chain[k].kind = kind}

\* once a trace shows none it shows nothing else
NoneIsFinal(t) == \A i, j \in 1 .. Len(t) : (i < j /\ t[i] = None) => t[j] = None

\* C11: idempotent exhaustion: in every chain built from Amplify, Duration,
\* Delay, Filter, Buffered, ChannelConverter and SampleRateConverter over a
\* finite source, at every level, once next_sample has returned none every
\* later call returns none too (and every call is defined).
C11_IdempotentExhaustion ==
    \A k \in 2 .. Len(chain) : NoneIsFinal(trace[k])

\* a ChannelConverter that adds channels over a SampleRateConverter that
\* resamples has returned a sample and then none twice
C11_Witness ==
    /\ Len(chain) = 3
    /\ chain[2].kind = "SampleRateConverter"
    /\ chain[2].from # chain[2].to
    /\ chain[3].kind = "ChannelConverter"
    /\ chain[3].to > chain[3].from
    /\ \E i \in 1 .. Len(trace[3]) - 2 :
          /\ trace[3][i] # None
          /\ trace[3][i + 1] = None
          /\ trace[3][i + 2] = None

\* C12: Buffered delivers exactly the samples of its input, in order, none
\* lost and none twice: what it has delivered followed by what its buffer
\* still holds is what it has pulled; and it has returned end-of-stream only
\* with its buffer drained and its input at end-of-stream.
C12_BufferedDeliversAll ==
    \A k \in Levels("Buffered") :
        /\ Values(trace[k])
             \o SubSeq(chain[k].buffer, chain[k].buffer_idx + 1, Len(chain[k].buffer))
           = Values(trace[k - 1])
        /\ (\E i \in 1 .. Len(trace[k]) : trace[k][i] = None)
              => /\ chain[k].buffer = <<>>
                 /\ trace[k - 1] # <<>>
                 /\ trace[k - 1][Len(trace[k - 1])] = None

\* a Buffered has refilled more than once, delivered all and ended
C12_Witness ==
    \E k \in Levels("Buffered") :
        /\ Len(Values(trace[k])) > 2 * chain[k].buffer_size
        /\ trace[k][Len(trace[k])] = None

\* the slot data[i] is the first of a run of dequeued samples
RunStart(i) == data[i].real /\ (i = 1 \/ ~data[i - 1].real)

\* C13 as stated: the zero frame an underrun cuts at the end of a callback
\* is completed by the next callback before it writes real data, and real
\* data always begins at channel 0 of a frame.
C13_RealDataBeginsAtChannelZero ==
    /\ callbacks > 0 =>
          \A i \in 1 .. entry_overlap :
              entry_at + i <= Len(data) /\ ~data[entry_at + i].real
    /\ \A i \in 1 .. Len(data) : RunStart(i) => (i - 1) % ChannelCount = 0

\* C14: the k-th sample ever dequeued (k from 0) is written to a slot whose
\* channel index is k mod channel_count, whatever the underruns were.
C14_SampleKeepsItsChannel ==
    \A i \in 1 .. Len(data) :
        data[i].real => (i - 1) % ChannelCount = data[i].k % ChannelCount

\* an underrun cut a zero frame at the end of a callback, the next callback
\* completed it and then wrote a dequeued sample, which was not the first
\* of its frame
C14_Witness ==
    /\ entry_overlap > 0
    /\ Len(data) > entry_at + entry_overlap
    /\ data[entry_at + entry_overlap + 1].real
    /\ data[entry_at + entry_overlap + 1].k % ChannelCount # 0

\* the dequeued samples in the order in which they were written
RECURSIVE RealValues(_)
RealValues(d) ==
    IF d = <<>> THEN <<>>
    ELSE (IF Head(d).real THEN <<Head(d).v>> ELSE <<>>) \o RealValues(Tail(d))

\* the sample the render loop is about to enqueue
Held == IF lpc = "enqueue" THEN <<value>> ELSE <<>>

\* C15 as stated: every sample the render loop has pulled from the master
\* chain is, in pull order and exactly once, among the samples the callback
\* has dequeued, the samples in the device queue and the sample the loop is
\* enqueuing.
C15_PulledIsEnqueued ==
    RealValues(data) \o queue \o Held = [i \in 1 .. Len(pulled) |-> Rendered(pulled[i])]

\* C16: a ChannelConverter that adds channels copies, in every output
\* frame, the input frame's channels in order to the first `from` output
\* channels and the input frame's last channel to every further one.
C16_ExpandRepeatsLast ==
    \A k \in Levels("ChannelConverter") :
        chain[k].to > chain[k].from =>
            \A n \in 0 .. Len(trace[k]) - 1 :
                trace[k][n + 1] =
                    trace[k - 1][(n \div chain[k].to) * chain[k].from
                                 + Min(n % chain[k].to, chain[k].from - 1) + 1]

\* two frames were doubled in width
C16_Witness ==
    \E k \in Levels("ChannelConverter") :
        /\ chain[k].to = 2 * chain[k].from
        /\ Len(trace[k]) >= 2 * chain[k].to
        /\ \A n \in 1 .. 2 * chain[k].to : trace[k][n] # None

\* the input samples a ChannelConverter has pulled once it has returned n
\* samples
ChannelConverterPulled(from, to, n) ==
    (n \div to) * from + Min(n % to, from)

\* C17: a ChannelConverter consumes one input frame per output frame: having
\* returned n samples it has pulled `from` input samples for each whole
\* output frame and one for each channel below `from` of the frame it is in,
\* and output frame f carries input frame f's first min(from, to) channels.
C17_OneFramePerFrame ==
    \A k \in Levels("ChannelConverter") :
        /\ Len(trace[k - 1])
             = ChannelConverterPulled(chain[k].from, chain[k].to, Len(trace[k]))
        /\ \A n \in 0 .. Len(trace[k]) - 1 :
              n % chain[k].to < chain[k].from =>
                 trace[k][n + 1] =
                     trace[k - 1][(n \div chain[k].to) * chain[k].from
                                  + (n % chain[k].to) + 1]

\* two frames were narrowed, the surplus channel discarded
C17_Witness ==
    \E k \in Levels("ChannelConverter") :
        /\ chain[k].to < chain[k].from
        /\ Len(trace[k]) = 2 * chain[k].to
        /\ \A n \in 1 .. Len(trace[k - 1]) : trace[k - 1][n] # None

\* nodes[k] is the ChannelConverter of a Converter whose targets are the
\* format of its input
IdentityConverter(k) ==
    /\ k >= 3
    /\ chain[k].kind = "ChannelConverter"
    /\ chain[k - 1].kind = "SampleRateConverter"
    /\ chain[k].from = chain[k].to
    /\ chain[k - 1].from = chain[k - 1].to

\* C18: a Converter to the channel count and sample rate of its input is
\* transparent: what it has returned is, call by call, what its input has
\* returned; nothing was pulled by the constructors and the end-of-stream
\* results coincide.
C18_IdentityTransparent ==
    \A k \in 3 .. Len(chain) :
        IdentityConverter(k) =>
            /\ trace[k] = trace[k - 2]
            /\ trace[k - 1] = trace[k - 2]

\* an identity Converter has passed samples on and then the end-of-stream
C18_Witness ==
    \E k \in 3 .. Len(chain) :
        /\ IdentityConverter(k)
        /\ Len(Values(trace[k])) >= 3
        /\ trace[k][Len(trace[k])] = None

\* the levels that hold a SampleRateConverter which resamples
Resamplers == {k \in Levels("SampleRateConverter") : chain[k].from # chain[k].to}

\* the input samples a resampler holds or has passed once it has returned n
\* samples out of complete frames: two frames read ahead by the constructor
\* and one frame per step of the window, which is at input frame
\* floor(from * J / to) for output frame J
ResamplerPulled(node, n) ==
    IF n = 0 THEN 2 * node.channels
    ELSE node.channels
           * (2 + (node.from * ((n - 1) \div node.channels)) \div node.to)

\* C19: a resampling SampleRateConverter moves its input window by one input
\* frame per step without skipping: as long as its input has not ended it
\* has pulled exactly the frames up to the window of its latest output frame,
\* which is `from` input frames for every `to` output frames; and whatever
\* its input does, n calls have pulled at most floor(from * n / to) frames
\* after the two of the constructor, so every call ends after a bounded
\* number of pulls.
C19_WindowStepsByOne ==
    \A k \in Resamplers :
        /\ Len(trace[k - 1])
              <= chain[k].channels * (2 + (chain[k].from * Len(trace[k])) \div chain[k].to)
        /\ (\A i \in 1 .. Len(trace[k - 1]) : trace[k - 1][i] # None)
              => Len(trace[k - 1]) = ResamplerPulled(chain[k], Len(trace[k]))

\* a whole cycle of output frames and the first of the next were returned
\* with the input still running
C19_Witness ==
    \E k \in Resamplers :
        /\ chain[k].from > 1
        /\ Len(trace[k]) > chain[k].to * chain[k].channels
        /\ \A i \in 1 .. Len(trace[k - 1]) : trace[k - 1][i] # None

\* the n-th sample (n from 0) a resampler returns, computed from the input
\* samples in by the formula of the interpolation
Interpolated(node, in, n) ==
    Lerp(in[((node.from * (n \div node.channels)) \div node.to) * node.channels
             + (n % node.channels) + 1],
         in[((node.from * (n \div node.channels)) \div node.to + 1) * node.channels
             + (n % node.channels) + 1],
         (node.from * (n \div node.channels)) % node.to,
         node.to)

\* C20: output frame J of a resampling SampleRateConverter is, channel by
\* channel, the interpolation between input frames floor(J * from / to) and
\* the one after it with weight ((from * J) mod to) / to, and the channels
\* of a frame are returned in order on consecutive calls; stated for the
\* output frames whose two input frames are complete.
C20_LinearInterpolation ==
    \A k \in Resamplers :
        \A n \in 0 .. Len(trace[k]) - 1 :
            ((chain[k].from * (n \div chain[k].channels)) \div chain[k].to + 2)
                    * chain[k].channels <= Len(Values(trace[k - 1]))
                => trace[k][n + 1] = Some(Interpolated(chain[k], Values(trace[k - 1]), n))

\* a cycle of two-channel frames was interpolated with a ratio that is not
\* a whole number
C20_Witness ==
    \E k \in Resamplers :
        /\ chain[k].from > 1
        /\ chain[k].to > 1
        /\ chain[k].channels = 2
        /\ Len(trace[k]) > chain[k].to * chain[k].channels
        /\ \A n \in 1 .. Len(trace[k]) : trace[k][n] # None

\* the frames the innermost source held when it was built
InputFrames == (Len(Values(trace[1])) + Len(chain[1].remaining)) \div chain[1].channel_count

\* the innermost source held whole frames only
WholeFrames == (Len(Values(trace[1])) + Len(chain[1].remaining)) % chain[1].channel_count = 0

\* the levels that hold a SampleRateConverter from a rate to twice the rate,
\* directly over the innermost source
Doublers == {k \in Resamplers : k = 2 /\ chain[k].from = 1 /\ chain[k].to = 2}

\* none was returned by nodes[k]
Ended(k) == \E i \in 1 .. Len(trace[k]) : trace[k][i] = None

\* C21: a SampleRateConverter from rate R to rate 2R over a source of N whole
\* frames never returns more than 2N + 1 frames, and when it returns
\* end-of-stream it has returned at least 2N - 1 whole frames.
C21_DoubledRateFrameCount ==
    \A k \in Doublers :
        WholeFrames =>
            /\ Len(Values(trace[k])) <= chain[k].channels * (2 * InputFrames + 1)
            /\ Ended(k) =>
                  /\ Len(Values(trace[k])) >= chain[k].channels * (2 * InputFrames - 1)
                  /\ Len(Values(trace[k])) % chain[k].channels = 0

\* two frames of two channels were resampled to twice the rate until the
\* end of the stream
C21_Witness ==
    \E k \in Doublers :
        /\ WholeFrames
        /\ InputFrames >= 2
        /\ chain[k].channels = 2
        /\ Ended(k)

\* C22: a resampling SampleRateConverter returns end-of-stream once its
\* input cannot supply two complete frames: every sample it returns belongs
\* to an output frame whose two input frames it has pulled completely, and
\* at the end of the stream it has returned whole frames only.
C22_EndOfStreamAtLastPair ==
    \A k \in Resamplers :
        /\ \A n \in 0 .. Len(trace[k]) - 1 :
              trace[k][n + 1] # None =>
                  ((chain[k].from * (n \div chain[k].channels)) \div chain[k].to + 2)
                        * chain[k].channels <= Len(Values(trace[k - 1]))
        /\ Ended(k) => Len(Values(trace[k])) % chain[k].channels = 0

\* the input of nodes[k] has not ended
InputRuns(k) == \A i \in 1 .. Len(trace[k - 1]) : trace[k - 1][i] # None

\* C24: over an input that does not end, Duration returns a sample while
\* its remaining budget covers one more sample period and end-of-stream
\* only then: floor(limit_ns / p) samples, p being the sample period.
C24_DurationYieldsFloor ==
    \A k \in Levels("Duration") :
        InputRuns(k) =>
            /\ Len(Values(trace[k]))
                  <= chain[k].requested_duration_ns \div chain[k].duration_ns_per_sample
            /\ Ended(k) =>
                  Len(Values(trace[k]))
                      = chain[k].requested_duration_ns \div chain[k].duration_ns_per_sample

\* the chain with what its nodes have returned
TheChain == [nodes |-> chain, trace |-> trace]

\* the calls of a Delay that were answered with silence
Silence(k) == Len(trace[k]) - Len(trace[k - 1])

\* C25: Delay does not pull its input while its silence lasts, returns 0.0
\* during that time and after it exactly what its input returns, in order;
\* its total duration is that of its input plus the delay when the input's
\* is known, and unknown otherwise.
C25_SilenceThenInput ==
    \A k \in Levels("Delay") :
        /\ Silence(k) >= 0
        /\ \A i \in 1 .. Len(trace[k]) :
              trace[k][i] = IF i <= Silence(k) THEN Some(0)
                            ELSE trace[k - 1][i - Silence(k)]
        /\ chain[k].remaining_delay_ns > chain[k].duration_ns_per_sample
              => trace[k - 1] = <<>>
        /\ total_duration(TheChain, k) =
              IF total_duration(TheChain, k - 1) = None THEN None
              ELSE Some(total_duration(TheChain, k - 1)[1] + chain[k].requested_delay_ns)

\* a Delay over an input of known duration has returned silence and then
\* samples of its input
C25_Witness ==
    \E k \in Levels("Delay") :
        /\ Silence(k) > 0
        /\ Len(Values(trace[k - 1])) >= 2
        /\ total_duration(TheChain, k - 1) # None

\* the samples among the first n results of t
Delivered(t, n) == Cardinality({i \in 1 .. n : t[i] # None})

\* C26: the index Filter hands to its callback is k for the k-th sample it
\* delivers, counted from 0 over the interleaved samples; it rises by one
\* with every pull, and when the input returns end-of-stream Filter returns
\* it without a value of the callback.
C26_FilterCountsSamples ==
    \A k \in Levels("Filter") :
        /\ Len(trace[k]) = Len(trace[k - 1])
        /\ chain[k].current_sample = Len(trace[k])
        /\ \A i \in 1 .. Len(trace[k]) :
              trace[k][i] = IF trace[k - 1][i] = None THEN None
                            ELSE Some(FilterCallback(
                                     trace[k - 1][i][1],
                                     [current_sample |-> Delivered(trace[k], i - 1),
                                      sample_rate |-> sample_rate(TheChain, k - 1)]))

\* a Filter over two channels has delivered a frame and a half and then
\* end-of-stream
C26_Witness ==
    \E k \in Levels("Filter") :
        /\ channel_count(TheChain, k) = 2
        /\ Len(Values(trace[k])) >= 3
        /\ Ended(k)

\* the levels that hold a Converter as MixerController::add makes it: a
\* ChannelConverter over a SampleRateConverter
Converted ==
    {k \in Levels("ChannelConverter") : k > 2 /\ chain[k - 1].kind = "SampleRateConverter"}

\* the rate the SampleRateConverter nodes[k] was built for: _to times the
\* greatest common divisor, which is the rate of the input over _from
to_sample_rate(k) == chain[k].to * (sample_rate(TheChain, k - 1) \div chain[k].from)

\* C23: a source as MixerController::add puts it on the pending list, a
\* Converter to the Mixer's format, reports the Mixer's channel count as its
\* channel_count() and the Mixer's sample rate as its sample_rate().
C23_AdmittedInMixerFormat ==
    \A k \in Converted :
        /\ channel_count(TheChain, k) = chain[k].to
        /\ sample_rate(TheChain, k) = to_sample_rate(k - 1)

\* the slots of the buffers of the callbacks that have returned
Finished == IF dpc = "loop" THEN entry_at ELSE Len(data)

\* C30 as stated: when the callback returns, every slot of its buffer has
\* been written exactly once, with a dequeued sample or with zero, and
\* nothing was written outside the buffer.
C30_EverySlotWrittenOnce ==
    /\ Len(data) = callbacks * ChannelCount * CallbackFrames
    /\ \A i \in 1 .. Finished : data[i].writes = 1

Abs(x) == IF x < 0 THEN -x ELSE x

\* the rate the routine that opened the device asked for
DesiredRate == IF opc = "main" THEN MainDesiredRate ELSE StreamDesiredRate

C28_AddedInStartOrder ==
    /\ \A i, j \in 1 .. Len(handed) : i < j => handed[i][1] <= handed[j][1]
    /\ \A i, j \in 1 .. Len(handed) : i # j => handed[i][2] # handed[j][2]
    /\ {handed[i][2] : i \in 1 .. Len(handed)} \cap {sources[i][2] : i \in 1 .. Len(sources)} = {}
    /\ {handed[i][2] : i \in 1 .. Len(handed)} \cup {sources[i][2] : i \in 1 .. Len(sources)}
          = 1 .. next_id - 1
    /\ rpc = "done" => sources = <<>>
    /\ \A i \in 1 .. Len(handed) : handed[i][1] <= handed[i][3]

\* the loop has ended after it handed over two sources with different start
\* times, the later one in a later iteration
C28_Witness ==
    /\ rpc = "done"
    /\ Len(handed) >= 2
    /\ handed[1][1] < handed[2][1]
    /\ handed[1][3] < handed[2][3]

\* the commands in cmds[1..m] that open a repeat less those that end one
Depth(cmds, m) ==
    Cardinality({i \in 1 .. m : cmds[i].name = "repeat"})
        - Cardinality({i \in 1 .. m : cmds[i].name = "end-repeat"})

\* every end-repeat has its repeat and every repeat its end-repeat
Balanced(cmds) ==
    /\ \A m \in 1 .. Len(cmds) : Depth(cmds, m) >= 0
    /\ Depth(cmds, Len(cmds)) = 0

\* the position of the end-repeat that matches the repeat at position j
MatchEnd(cmds, j) ==
    CHOOSE m \in j + 1 .. Len(cmds) :
        /\ Depth(cmds, m) = Depth(cmds, j) - 1
        /\ \A n \in j + 1 .. m - 1 : Depth(cmds, n) >= Depth(cmds, j)

RECURSIVE Expansion(_)
\* what the commands of a balanced list stand for: a repeat with its body
\* and end-repeat stands for what the body stands for, count times
Expansion(cmds) ==
    IF cmds = <<>> THEN <<>>
    ELSE IF Head(cmds).name = "repeat"
         THEN Repeated(Expansion(SubSeq(cmds, 2, MatchEnd(cmds, 1) - 1)), Head(cmds).arg)
                  \o Expansion(SubSeq(cmds, MatchEnd(cmds, 1) + 1, Len(cmds)))
         ELSE <<Head(cmds)>> \o Expansion(Tail(cmds))

\* the repeats whose body holds position i
Enclosing(cmds, i) ==
    {j \in 1 .. i - 1 : cmds[j].name = "repeat" /\ MatchEnd(cmds, j) > i}

RECURSIVE CountProduct(_, _)
\* the product of the counts of the repeats at the positions S
CountProduct(cmds, S) ==
    IF S = {} THEN 1
    ELSE cmds[CHOOSE j \in S : TRUE].arg
            * CountProduct(cmds, S \ {CHOOSE j \in S : TRUE})

RECURSIVE Copies(_, _, _)
\* how often the command x is to appear: once for each of its positions
\* from i on, times the counts of the repeats around that position
Copies(cmds, x, i) ==
    IF i > Len(cmds) THEN 0
    ELSE (IF cmds[i] = x THEN CountProduct(cmds, Enclosing(cmds, i)) ELSE 0)
            + Copies(cmds, x, i + 1)

\* C29: when a list of commands in which the repeats and end-repeats match
\* has been processed, final_commands holds the body of every repeat count
\* times in a row and in order, nested repeats multiplying, and the
\* commands outside the repeats once: it is the expansion of the list, and
\* each command appears as often as the product of the counts around it.
C29_RepeatExpansion ==
    (kpc \in {"pattern", "track"} /\ Balanced(commands)) =>
        /\ final_commands = Expansion(commands)
        /\ \A x \in {c \in Command : c.name \in {"delay", "play"}} :
              Occurrences(x, final_commands) = Copies(commands, x, 1)

\* a repeat of 2 inside a repeat of 2 was expanded: a command of the inner
\* body appears four times
C29_Witness ==
    /\ kpc = "pattern"
    /\ \E i \in 1 .. Len(commands) :
          /\ commands[i].name = "play"
          /\ Cardinality(Enclosing(commands, i)) = 2
          /\ CountProduct(commands, Enclosing(commands, i)) = 4
          /\ Occurrences(commands[i], final_commands) = 4

\* ---------------------------------------------------- the critical sections
\* the thread that takes the step: a producer inside add, or the consumer
StepOfProducer(p) == ppc'[p] # ppc[p]

StepOfConsumer == cpc' # cpc

\* a step taken by the thread that holds _pending_sources_mtx
StepUnderLock ==
    \/ mtx = MixerThread /\ StepOfConsumer
    \/ \E p \in Producers : mtx = p /\ StepOfProducer(p)

\* no source is pulled, built or counted
NoSourceWork ==
    /\ remaining' = remaining
    /\ content' = content
    /\ first_pull' = first_pull
    /\ none_count' = none_count
    /\ sample_count' = sample_count
    /\ mixed' = mixed

\* C31: while the pending-list mutex is held, by add or by the admission
\* pass, the holder calls no source's next_sample and does no conversion work:
\* its steps leave every source's remaining samples, the pull records and the
\* sample counter as they were.
C31_NoWorkUnderLock == [][StepUnderLock => NoSourceWork]_vars

\* the admission pass has moved a batch of two unpulled, non-empty sources
\* into the active set and still holds the mutex
C31_Witness ==
    /\ mtx = MixerThread
    /\ cpc = "store"
    /\ Len(current_sources) = 2
    /\ \A i \in 1 .. Len(current_sources) :
          /\ content[current_sources[i]] # <<>>
          /\ remaining[current_sources[i]] = content[current_sources[i]]
          /\ first_pull[current_sources[i]] = -1

\* C32: a SampleRateConverter that resamples uses constant memory: in every
\* reachable state its current frame and its next frame hold at most
\* channel_count samples each and its output queue at most channel_count - 1,
\* whatever the length of the input.
C32_ConstantMemory ==
    \A k \in Resamplers :
        /\ Len(chain[k].current_frame) <= chain[k].channels
        /\ Len(chain[k].next_frame) <= chain[k].channels
        /\ Len(chain[k].output_buffer) <= chain[k].channels - 1

\* a two-channel resampler has taken more input than its three buffers can
\* hold, both frames are full and the output queue holds its one sample
C32_Witness ==
    \E k \in Resamplers :
        /\ k = 2
        /\ chain[k].channels = 2
        /\ Len(Values(trace[1])) > 3 * chain[k].channels
        /\ Len(chain[k].current_frame) = 2
        /\ Len(chain[k].next_frame) = 2
        /\ Len(chain[k].output_buffer) = 1

\* the client thread enters the user callback
CallbackInvoked == tpc = "process" /\ tpc' = "call"

\* C33: the user callback is invoked only while the device is open and
\* started: not before start() has stored it, not after stop() has returned
\* until the next start() stores it, and not after close() has returned.
C33_CallbackOnlyWhileStarted == [][CallbackInvoked => ~quiet]_vars

\* C34: open returns true only when the device ends up open, with the client
\* thread started, so that a start() after a true result finds it open.
C34_TrueMeansOpen ==
    (open_returned = "true" /\ apc = "idle") => (is_open /\ tpc # "none")

\* C35: a command list whose repeat and end-repeat commands do not balance is
\* rejected, in patterns and in tracks alike: neither function goes on with
\* an expanded list unless the list was balanced.
C35_UnbalancedIsRejected ==
    kpc \in {"pattern", "track"} => Balanced(commands)

\* the index of the note that Note::from_str makes of str
NoteIndex(str) == get_note_idx(Note_from_str(str).letter, Note_from_str(str).octave)

\* C36: for every letter A..G and octave 0..9 the note index of the sharp
\* note X#n is one more, and of the flat note Xbn one less, than the note
\* index of Xn.
C36_ModifierIsOneSemitone ==
    (/\ npc = "done"
     /\ Len(note_str) = 3
     /\ note_str[1] \in UpperLetters
     /\ note_str[2] \in {"#", "b"}
     /\ IsDigit(note_str[3])) =>
        /\ note_parsed.ok
        /\ Note_from_str(<<note_str[1], note_str[3]>>).ok
        /\ get_note_idx(note_parsed.letter, note_parsed.octave) =
              NoteIndex(<<note_str[1], note_str[3]>>)
                  + (IF note_str[2] = "#" THEN 1 ELSE -1)

Sign(x) == IF x > 0 THEN 1 ELSE IF x < 0 THEN -1 ELSE 0

\* C37: every sample in [-1.0, 1.0] is converted to a 16-bit value without
\* overflow: the scaled integer lies within [-32768, 32767] and the value
\* written has the sign of the sample.
C37_PcmWithoutOverflow ==
    wpc = "written" =>
        /\ ScaledSample(wave_sample) >= Int16Min
        /\ ScaledSample(wave_sample) <= Int16Max
        /\ Sign(wave_pcm) = Sign(wave_sample)

AdmissionPass == cpc = "pass" /\ cpc' = "store"

\* C39: all sources in the pending list when an admission pass runs are
\* treated alike: either all of them are moved to the end of the active set,
\* or all of them stay pending, in their original order.
C39_BatchTreatedAlike ==
    [][AdmissionPass =>
          \/ /\ pending_sources' = <<>>
             /\ current_sources' = current_sources \o pending_sources
          \/ /\ pending_sources' = pending_sources
             /\ current_sources' = current_sources]_vars

\* two sources sat in the pending list through a pass that admitted neither
\* and were admitted together at the next frame boundary
C39_Witness ==
    \E s, t \in SourceIds :
        /\ s # t
        /\ waited[s] >= 1
        /\ waited[t] >= 1
        /\ admitted_at[s] = ChannelCount
        /\ admitted_at[t] = ChannelCount
        /\ pending_sources = <<>>

TypeOK ==
    /\ has_pending \in BOOLEAN
    /\ mtx \in {Free, MixerThread} \cup Producers
    /\ sample_count \in (0 .. Half - 1) \X (0 .. Half - 1)
    /\ cpc \in {"idle", "start", "pass", "store", "sum"}
    /\ rpc \in {"off", "loop", "done"}
    /\ Len(ret) <= 1

=============================================================================
